---- MODULE Spec2Model ----
(***************************************************************************)
(* A model of the LSRA repository: the tree/statement/block IR (ir.py),    *)
(* the stack-to-IR importer (stack_instruction.py) and the linear scan     *)
(* register allocator (lsra.py).                                           *)
(*                                                                         *)
(* Spec       : Lsra.do_linear_scan on straight-line functions (one block) *)
(* SpecCfg    : Lsra.do_linear_scan on functions of several blocks         *)
(* Both start from a reindexed Ir whose predecessors have been computed.   *)
(***************************************************************************)
EXTENDS Integers, Sequences, FiniteSets, TLC

(***************************************************************************)
(* Bounds of the model.                                                    *)
(***************************************************************************)
\* trees of a single-block Ir (deep expression forests)
MaxTrees == 8
\* trees of a multi-block Ir
MaxCfgTrees == 6
\* blocks of a multi-block Ir
MaxBlocks == 3
\* local variables of the function (Ir.local_vars)
MaxLocals == 1
\* registers handed to Lsra.__init__ (num_regs ranges over 1..MaxRegs)
MaxRegs == 2
\* local variables and trees of a straight-line Ir of several variables
MaxStoreLocals == 2
MaxStoreTrees == 6
\* blocks and trees of an Ir whose entry block may be a jump target
MaxLoopBlocks == 2
MaxLoopTrees == 6
\* the size of the small functions allocated next to the demo function
MaxDemoTrees == 5
\* SpillRecs looked at on one tree
MaxSpillRecs == 4
MaxSharedTrees == 4

(***************************************************************************)
(* Python values.                                                          *)
(***************************************************************************)
\* None where the code holds an int (Interval.live_in, a missing UsePos)
None == -2
\* Tree.reg before the allocator assigns it (ir.py: reg: int = -1)
UnsetReg == -1
\* None where the code holds an Interval (Register.active_interval)
NoInterval == <<"none", -1>>

VarInterval(v) == <<"var", v>>
TmpInterval(t) == <<"tmp", t>>
IsVar(inter) == inter[1] = "var"
IsTmp(inter) == inter[1] = "tmp"

Last(s) == s[Len(s)]
Contains(s, x) == \E i \in 1..Len(s) : s[i] = x
\* list.remove(x): drops the first element equal to x
RemoveFirst(s, x) ==
    LET i == CHOOSE k \in 1..Len(s) : s[k] = x /\ \A j \in 1..(k - 1) : s[j] # x
    IN  SubSeq(s, 1, i - 1) \o SubSeq(s, i + 1, Len(s))

(***************************************************************************)
(* TreeKind (ir.py) and the shape of each kind: how many subtrees the tree *)
(* takes from the evaluation order, and whether it is a statement root.    *)
(***************************************************************************)
ValueKinds == {"LdLocal", "Const", "BinOp"}
TerminatorKinds == {"Ret", "Branch", "Jmp"}
RootKinds == {"StLocal", "Discard"} \cup TerminatorKinds

Arity(kind) ==
    CASE kind \in {"LdLocal", "Const", "Jmp"} -> 0
      [] kind \in {"StLocal", "Discard", "Ret", "Branch"} -> 1
      [] kind = "BinOp" -> 2

\* one tree in execution order: its kind, its local (LdLocal, StLocal) and the
\* blocks its edges target (Jmp, Branch)
Tok(k, l, ts) == [kind |-> k, local |-> l, targets |-> ts]

LeafToks(nl) == {Tok("LdLocal", v, <<>>) : v \in 0..(nl - 1)} \cup {Tok("Const", -1, <<>>)}
StmtToks(nl) == {Tok("StLocal", v, <<>>) : v \in 0..(nl - 1)} \cup {Tok("Discard", -1, <<>>)}
TermToks(d, nb) ==
    IF d = 0 THEN {Tok("Jmp", -1, <<t>>) : t \in 1..nb}
    ELSE IF d = 1 THEN {Tok("Ret", -1, <<>>)}
                       \cup {Tok("Branch", -1, <<t1, t2>>) : t1 \in 1..nb, t2 \in 1..nb}
    ELSE {}

\* the execution orders of n trees that leave d values pending and hold no
\* terminator, each paired with d
RECURSIVE Prefixes(_, _, _)
Prefixes(n, nl, maxd) ==
    IF n = 0 THEN {[toks |-> <<>>, d |-> 0]}
    ELSE LET prev == Prefixes(n - 1, nl, maxd + 1)
         IN  {[toks |-> Append(p.toks, t), d |-> p.d + 1] :
                  p \in {q \in prev : q.d + 1 <= maxd}, t \in LeafToks(nl)}
             \cup {[toks |-> Append(p.toks, Tok("BinOp", -1, <<>>)), d |-> p.d - 1] :
                  p \in {q \in prev : q.d >= 2 /\ q.d - 1 <= maxd}}
             \cup {[toks |-> Append(p.toks, t), d |-> 0] :
                  p \in {q \in prev : q.d = 1}, t \in StmtToks(nl)}

\* the blocks of exactly n trees: statements, then one terminator
BlocksOfLen(n, nl, nb) ==
    UNION {{Append(p.toks, t) : t \in TermToks(p.d, nb)} : p \in Prefixes(n - 1, nl, 1)}

\* the block lists of nb blocks and at most budget trees
RECURSIVE BlockLists(_, _, _, _)
BlockLists(k, budget, nl, nb) ==
    IF k = 0 THEN {<<>>}
    ELSE UNION {{<<b>> \o rest : b \in BlocksOfLen(n, nl, nb),
                               rest \in BlockLists(k - 1, budget - n, nl, nb)} :
                n \in 1..(budget - (k - 1))}

(***************************************************************************)
(* An Ir as do_linear_scan receives it: reindexed, predecessors computed.  *)
(* Trees are named by their ir_idx, blocks by their place in the list.     *)
(***************************************************************************)
RECURSIVE Flatten(_)
Flatten(bl) == IF bl = <<>> THEN <<>> ELSE Head(bl) \o Flatten(Tail(bl))

RECURSIVE BlockStarts(_, _)
BlockStarts(bl, at) ==
    IF bl = <<>> THEN <<>> ELSE <<at>> \o BlockStarts(Tail(bl), at + Len(Head(bl)))

\* the subtrees of every tree, from the execution order: each tree takes the
\* Arity most recent pending values (Tree.tree_execution_order read backwards)
RECURSIVE SubtreesOf(_, _, _, _)
SubtreesOf(toks, i, stack, acc) ==
    IF i > Len(toks) THEN acc
    ELSE LET a    == Arity(toks[i].kind)
             subs == SubSeq(stack, Len(stack) - a + 1, Len(stack))
             rest == SubSeq(stack, 1, Len(stack) - a)
         IN  SubtreesOf(toks, i + 1,
                        IF toks[i].kind \in RootKinds THEN rest ELSE Append(rest, i - 1),
                        Append(acc, subs))

recompute_predecessors(bl) ==
    LET RECURSIVE Visit(_, _, _)
        Visit(b, k, preds) ==
            IF b > Len(bl) THEN preds
            ELSE LET edges == Last(bl[b]).targets
                 IN  IF k > Len(edges) THEN Visit(b + 1, 1, preds)
                     ELSE Visit(b, k + 1,
                                [preds EXCEPT ![edges[k]] = Append(@, b)])
    IN  Visit(1, 1, [b \in 1..Len(bl) |-> <<>>])

MakeIr(bl, nl) ==
    LET toks   == Flatten(bl)
        n      == Len(toks)
        subs   == SubtreesOf(toks, 1, <<>>, <<>>)
        starts == BlockStarts(bl, 0)
        preds  == recompute_predecessors(bl)
    IN  [ir_idx_count |-> n,
         local_vars   |-> nl,
         kind     |-> [t \in 0..(n - 1) |-> toks[t + 1].kind],
         local    |-> [t \in 0..(n - 1) |-> toks[t + 1].local],
         subtrees |-> [t \in 0..(n - 1) |-> subs[t + 1]],
         parent   |-> [t \in 0..(n - 1) |->
                          IF \E p \in 0..(n - 1) : Contains(subs[p + 1], t)
                          THEN CHOOSE p \in 0..(n - 1) : Contains(subs[p + 1], t)
                          ELSE None],
         block    |-> [t \in 0..(n - 1) |->
                          CHOOSE b \in 1..Len(bl) :
                              starts[b] <= t /\ t < starts[b] + Len(bl[b])],
         blocks   |-> [b \in 1..Len(bl) |->
                          [trees |-> [i \in 1..Len(bl[b]) |-> starts[b] + i - 1],
                           edges |-> Last(bl[b]).targets,
                           predecessors |-> preds[b]]]]

\* locals are named in the order the function first touches them
RECURSIVE CanonicalLocals(_, _, _)
CanonicalLocals(toks, i, used) ==
    \/ i > Len(toks)
    \/ /\ toks[i].local <= used
       /\ CanonicalLocals(toks, i + 1, IF toks[i].local = used THEN used + 1 ELSE used)

\* whether the entry block is the target of no edge
EntryHasNoPredecessor(bl) ==
    \A b \in 1..Len(bl) : \A k \in 1..Len(Last(bl[b]).targets) : Last(bl[b]).targets[k] # 1

\* straight-line functions of at most n trees: one block that returns
StraightLineIrs(n) ==
    {MakeIr(bl, MaxLocals) :
        bl \in {x \in BlockLists(1, n, MaxLocals, 1) :
                   /\ Last(x[1]).kind = "Ret"
                   /\ CanonicalLocals(Flatten(x), 1, 0)}}

\* functions of several blocks and at most n trees whose entry block has no
\* predecessor
CfgIrs(n) ==
    UNION {{MakeIr(bl, MaxLocals) :
               bl \in {x \in BlockLists(nb, n, MaxLocals, nb) :
                          /\ EntryHasNoPredecessor(x)
                          /\ CanonicalLocals(Flatten(x), 1, 0)}} :
           nb \in 2..MaxBlocks}

(***************************************************************************)
(* State.  ir is the Ir handed to do_linear_scan; the other variables are  *)
(* the fields of the Lsra instance, the fields the allocator assigns on    *)
(* trees, blocks and edges, and the position of do_linear_scan.            *)
(***************************************************************************)
VARIABLES
    ir,                  \* the Ir: trees, blocks, edges, predecessors
    num_regs,            \* len(Lsra.registers)
    allow_operand_reuse, \* Lsra.allow_operand_reuse
    saved_reuse,         \* do_linear_scan's local allow_operand_reuse (line 352)
    var_intervals,       \* Lsra.var_intervals: use/write positions, live range
    registers,           \* Lsra.registers[r].active_interval
    live_in,             \* Interval.live_in of every interval
    active_intervals,    \* Lsra.active_intervals
    current_block,       \* Lsra.current_block (a block's place in the list)
    current_tree,        \* Lsra.current_tree (an ir_idx)
    tree_reg,            \* Tree.reg
    tree_spills,         \* Tree.spills
    tree_restores,       \* Tree.restores
    tree_operands,       \* what the allocator appends to Tree.operands (StLocal)
    active_in,           \* BasicBlock.active_in
    active_out,          \* BasicBlock.active_out
    edge_spills,         \* BlockEdge.spills, per <<block, operand index>>
    edge_moves,          \* BlockEdge.moves
    edge_restores,       \* BlockEdge.restores
    block_i,             \* the block loop of the linear scan
    tree_i,              \* the tree loop of the linear scan
    restore_i,           \* the loop over tree.restores
    pc,                  \* where the running function stands
    err,                 \* the exception that ended it, "" if none
    fn,                  \* StackFunction.instructions handed to import_to_ir
    heap,                \* the BasicBlock, Statement and Tree objects
    import_block,        \* import_to_ir's current_block
    tree_stack,          \* import_to_ir's tree_stack
    i_ins,               \* import_to_ir's i_ins
    i_stmt_start,        \* import_to_ir's i_stmt_start
    pending,             \* the terminator whose targets are being resolved
    last_call            \* the last call on the block list and the heap before it

\* the state of Lsra and of the Ir it allocates
lsraVars == <<ir, num_regs, allow_operand_reuse, saved_reuse, var_intervals, registers,
              live_in, active_intervals, current_block, current_tree, tree_reg,
              tree_spills, tree_restores, tree_operands, active_in, active_out,
              edge_spills, edge_moves, edge_restores, block_i, tree_i, restore_i>>

\* the state of import_to_ir and of the block list it builds
importVars == <<fn, heap, import_block, tree_stack, i_ins, i_stmt_start, pending, last_call>>

vars == <<lsraVars, importVars, pc, err>>

Trees == 0..(ir.ir_idx_count - 1)
Blocks == 1..Len(ir.blocks)
Regs == 0..(num_regs - 1)
Edges == {<<b, k>> : b \in Blocks, k \in 1..2}
Intervals == {VarInterval(v) : v \in 0..(ir.local_vars - 1)} \cup {TmpInterval(t) : t \in Trees}

\* a block's active_in / active_out: None, or a list of CBActiveInterval
NoneList == [isNone |-> TRUE, items |-> <<>>]
SomeList(items) == [isNone |-> FALSE, items |-> items]

(***************************************************************************)
(* Interval (lsra.py:66-92).  A variable interval's positions come from    *)
(* interval discovery; a tree temp has one write (its tree) and one use    *)
(* (its parent).  A position is named by the ir_idx of its used_in tree.   *)
(***************************************************************************)
use_positions(inter) ==
    IF IsVar(inter) THEN var_intervals[inter[2]].use_positions
    ELSE <<ir.parent[inter[2]]>>

write_positions(inter) ==
    IF IsVar(inter) THEN var_intervals[inter[2]].write_positions
    ELSE <<inter[2]>>

last_read_at(inter) ==
    IF IsVar(inter) THEN var_intervals[inter[2]].last_read_at
    ELSE ir.parent[inter[2]]

\* the first position of the list that is not before current_pos, or None
FirstPosFrom(positions, current_pos) ==
    IF \E i \in 1..Len(positions) : positions[i] >= current_pos
    THEN positions[CHOOSE i \in 1..Len(positions) :
                       /\ positions[i] >= current_pos
                       /\ \A j \in 1..(i - 1) : positions[j] < current_pos]
    ELSE None

first_use_pos(inter, current_pos) == FirstPosFrom(use_positions(inter), current_pos)
first_write_pos(inter, current_pos) == FirstPosFrom(write_positions(inter), current_pos)

(***************************************************************************)
(* The part of the state the allocator's methods read and write, threaded  *)
(* through them as a record.  err names the exception a method raised.     *)
(***************************************************************************)
Cur == [registers |-> registers, live_in |-> live_in,
        active_intervals |-> active_intervals,
        tree_spills |-> tree_spills, tree_restores |-> tree_restores,
        err |-> ""]

Raise(S, e) == [S EXCEPT !.err = e]

\* Lsra.free_intervals, lines 124-147: whether the interval is dropped at pos
last_use_reached(inter, pos, reuse, blk) ==
    LET fup == first_use_pos(inter, pos)
        fwp == first_write_pos(inter, pos)
        a == last_read_at(inter) < pos
        b == IF ~a /\ reuse /\ fup # None THEN last_read_at(inter) = pos ELSE a
        c == IF ~b /\ fup # None /\ fwp # None /\ ir.block[fup] = blk
             THEN (IF ~(fwp < fup) /\ reuse THEN fwp = fup ELSE fwp < fup)
             ELSE b
    IN  c

\* Lsra.free_intervals (lsra.py:120-156) at tree pos of block blk
free_intervals(S, pos, reuse, blk) ==
    LET RECURSIVE Loop(_, _, _)
        Loop(i, T, kept) ==
            IF i > Len(S.active_intervals) THEN [T EXCEPT !.active_intervals = kept]
            ELSE LET inter == S.active_intervals[i]
                 IN  IF ~last_use_reached(inter, pos, reuse, blk)
                     THEN Loop(i + 1, T, Append(kept, inter))
                     ELSE IF T.live_in[inter] = None
                     THEN Raise(T, "TypeError")
                     ELSE Loop(i + 1,
                               [T EXCEPT !.registers[T.live_in[inter]] = NoInterval,
                                         !.live_in[inter] = None],
                               kept)
    IN  Loop(1, S, <<>>)

\* lsra.py:181-182: the index recorded when a later free register matches an
\* operand register (the code assigns best_reg_i to itself)
chosen_reg_i(first_free, matching) == first_free

\* Lsra.try_activate_with_free_reg (lsra.py:167-199); ok is its return value
try_activate_with_free_reg(S, inter, cur) ==
    LET free   == {r \in Regs : S.registers[r] = NoInterval}
        first  == CHOOSE r \in free : \A q \in free : r <= q
        later  == {r \in free : r > first}
        use    == first_use_pos(inter, cur)
        match  == {r \in later : \E k \in 1..Len(ir.subtrees[use]) :
                                     tree_reg[ir.subtrees[use][k]] = r}
        hit    == match # {}
        m      == CHOOSE r \in match : \A q \in match : r <= q
        best_reg   == IF hit THEN m ELSE first
        best_reg_i == IF hit THEN chosen_reg_i(first, m) ELSE first
        restored == \E k \in 1..Len(S.tree_restores[cur]) :
                        S.tree_restores[cur][k].interval = inter
        R == IF inter # TmpInterval(cur) /\ ~restored
             THEN [S EXCEPT !.tree_restores[cur] =
                                Append(@, [reg |-> best_reg_i, interval |-> inter])]
             ELSE S
    IN  IF free = {} THEN [ok |-> FALSE, S |-> S]
        ELSE IF later # {} /\ use = None THEN [ok |-> FALSE, S |-> Raise(S, "AttributeError")]
        ELSE [ok |-> TRUE,
              S  |-> [R EXCEPT !.live_in[inter] = best_reg_i,
                               !.registers[best_reg] = inter,
                               !.active_intervals = Append(@, inter)]]

\* spill_interval without the placeholder RestoreRec of lsra.py:210-212
spill_interval_without_restore(S, inter, cur) ==
    LET res  == S.live_in[inter]
        use  == first_use_pos(inter, cur)
        S1   == [S EXCEPT !.tree_spills[cur] = Append(@, [reg |-> res, interval |-> inter])]
        S3   == [S1 EXCEPT !.live_in[inter] = None]
    IN  IF res = None THEN Raise(S, "AssertionError")
        ELSE IF IsTmp(inter) /\ use = None THEN Raise(S1, "AttributeError")
        ELSE IF ~Contains(S3.active_intervals, inter) THEN Raise(S3, "ValueError")
        ELSE [S3 EXCEPT !.active_intervals = RemoveFirst(@, inter),
                        !.registers[res] = NoInterval]

\* spill_interval with the placeholder RestoreRec attached for a variable
\* and not for a tree temp (isinstance(inter.of, int) at lsra.py:210)
spill_interval_restoring_variables(S, inter, cur) ==
    LET res  == S.live_in[inter]
        use  == first_use_pos(inter, cur)
        S1   == [S EXCEPT !.tree_spills[cur] = Append(@, [reg |-> res, interval |-> inter])]
        S2   == IF IsTmp(inter) \/ use = None THEN S1
                ELSE [S1 EXCEPT !.tree_restores[use] =
                                    Append(@, [reg |-> UnsetReg, interval |-> inter])]
        S3   == [S2 EXCEPT !.live_in[inter] = None]
    IN  IF res = None THEN Raise(S, "AssertionError")
        ELSE IF ~Contains(S3.active_intervals, inter) THEN Raise(S3, "ValueError")
        ELSE [S3 EXCEPT !.active_intervals = RemoveFirst(@, inter),
                        !.registers[res] = NoInterval]

\* Lsra.spill_interval (lsra.py:202-219); the freed register is the victim's
\* live_in before the call
spill_interval(S, inter, cur) ==
    LET res  == S.live_in[inter]
        use  == first_use_pos(inter, cur)
        S1   == [S EXCEPT !.tree_spills[cur] = Append(@, [reg |-> res, interval |-> inter])]
        S2   == IF IsVar(inter) THEN S1
                ELSE [S1 EXCEPT !.tree_restores[use] =
                                    Append(@, [reg |-> UnsetReg, interval |-> inter])]
        S3   == [S2 EXCEPT !.live_in[inter] = None]
    IN  IF res = None THEN Raise(S, "AssertionError")
        ELSE IF IsTmp(inter) /\ use = None THEN Raise(S1, "AttributeError")
        ELSE IF ~Contains(S3.active_intervals, inter) THEN Raise(S3, "ValueError")
        ELSE [S3 EXCEPT !.active_intervals = RemoveFirst(@, inter),
                        !.registers[res] = NoInterval]

\* the choice of the interval to spill with an interval used at the same
\* position as the activated one eligible
spill_candidate_allowing_equal(S, inter_use, cur) ==
    LET act == S.active_intervals
        use(i) == first_use_pos(act[i], cur)
        elig == {i \in 1..Len(act) : use(i) = None \/ use(i) >= inter_use}
    IN  IF elig # {} THEN act[CHOOSE i \in elig : \A j \in elig : i <= j]
        ELSE NoInterval

\* the choice of the interval to spill with the eligible interval of nearest
\* next use taken (< at lsra.py:256)
spill_candidate_nearest(S, inter_use, cur) ==
    LET act == S.active_intervals
        use(i) == first_use_pos(act[i], cur)
        dead == {i \in 1..Len(act) : use(i) = None}
        firstDead == CHOOSE i \in dead : \A j \in dead : i <= j
        elig == {i \in 1..Len(act) : use(i) > inter_use}
        best == CHOOSE i \in elig :
                    /\ \A j \in elig : use(i) <= use(j)
                    /\ \A j \in elig : use(j) = use(i) => i <= j
    IN  IF dead # {} THEN act[firstDead]
        ELSE IF elig # {} THEN act[best]
        ELSE NoInterval

\* lsra.py:238-258: the interval activate_interval spills, NoInterval if none
\* is eligible
spill_candidate(S, inter_use, cur) ==
    LET act == S.active_intervals
        use(i) == first_use_pos(act[i], cur)
        dead == {i \in 1..Len(act) : use(i) = None}
        firstDead == CHOOSE i \in dead : \A j \in dead : i <= j
        elig == {i \in 1..Len(act) : use(i) > inter_use}
        best == CHOOSE i \in elig :
                    /\ \A j \in elig : use(j) <= use(i)
                    /\ \A j \in elig : use(j) = use(i) => i <= j
    IN  IF dead # {} THEN act[firstDead]
        ELSE IF elig # {} THEN act[best]
        ELSE NoInterval

\* activate_interval without the early return for an interval that is
\* already in a register (lsra.py:223-225)
activate_interval_again(S, inter, cur) ==
    LET try       == try_activate_with_free_reg(S, inter, cur)
        inter_use == first_use_pos(inter, cur)
        victim    == spill_candidate(S, inter_use, cur)
        reg       == S.live_in[victim]
        T         == spill_interval(S, victim, cur)
    IN  IF try.ok \/ try.S.err # "" THEN try.S
        ELSE IF inter_use = None THEN Raise(S, "AssertionError")
        ELSE IF victim = NoInterval THEN Raise(S, "No intervals elligible for spilling")
        ELSE IF T.err # "" THEN T
        ELSE [T EXCEPT !.live_in[inter] = reg,
                       !.registers[reg] = inter,
                       !.active_intervals = Append(@, inter)]

\* Lsra.activate_interval (lsra.py:222-273)
activate_interval(S, inter, cur) ==
    LET try       == try_activate_with_free_reg(S, inter, cur)
        inter_use == first_use_pos(inter, cur)
        victim    == spill_candidate(S, inter_use, cur)
        reg       == S.live_in[victim]
        T         == spill_interval(S, victim, cur)
    IN  IF S.live_in[inter] # None THEN S
        ELSE IF try.ok \/ try.S.err # "" THEN try.S
        ELSE IF inter_use = None THEN Raise(S, "AssertionError")
        ELSE IF victim = NoInterval THEN Raise(S, "No intervals elligible for spilling")
        ELSE IF T.err # "" THEN T
        ELSE [T EXCEPT !.live_in[inter] = reg,
                       !.registers[reg] = inter,
                       !.active_intervals = Append(@, inter)]

(***************************************************************************)
(* do_linear_scan (lsra.py:279-472).                                       *)
(***************************************************************************)
\* writes the record a method returned back to the state
Store(S) ==
    /\ registers' = S.registers
    /\ live_in' = S.live_in
    /\ active_intervals' = S.active_intervals
    /\ tree_spills' = S.tree_spills
    /\ tree_restores' = S.tree_restores

\* an exception leaves do_linear_scan: nothing runs after it
Continue(S, next) ==
    /\ pc' = IF S.err = "" THEN next ELSE "raised"
    /\ err' = S.err

TreesOf(b) == ir.blocks[b].trees

\* the ir_idx of trees of kind k reading or writing local v, in execution order
RECURSIVE PositionsOf(_, _, _)
PositionsOf(k, v, t) ==
    IF t >= ir.ir_idx_count THEN <<>>
    ELSE (IF ir.kind[t] = k /\ ir.local[t] = v THEN <<t>> ELSE <<>>)
         \o PositionsOf(k, v, t + 1)

\* lsra.py:297-298: the smallest ir_idx of a StLocal of the local
first_write_at(writes) == IF writes = <<>> THEN ir.ir_idx_count ELSE writes[1]

\* lsra.py:306: the tree a UsePos of a variable names (the LdLocal itself)
use_pos_tree(t) == t

\* Phase A, lsra.py:280-310
DiscoverIntervals ==
    /\ pc = "discover"
    /\ var_intervals' =
           [v \in 0..(ir.local_vars - 1) |->
               LET loads  == PositionsOf("LdLocal", v, 0)
                   writes == PositionsOf("StLocal", v, 0)
               IN  [use_positions   |-> [i \in 1..Len(loads) |-> use_pos_tree(loads[i])],
                    write_positions |-> writes,
                    first_write_at  |-> first_write_at(writes),
                    \* line 310 runs after every block: live to the end
                    last_read_at    |-> ir.ir_idx_count]]
    /\ block_i' = 1
    /\ pc' = "block_start"
    /\ UNCHANGED importVars
    /\ UNCHANGED <<ir, num_regs, allow_operand_reuse, saved_reuse, registers, live_in,
                   active_intervals, current_block, current_tree, tree_reg, tree_spills,
                   tree_restores, tree_operands, active_in, active_out, edge_spills,
                   edge_moves, edge_restores, tree_i, restore_i, err>>

\* lsra.py:333-336 adopting the last computed active_out of the list
adopted_active_in_last(preds) ==
    LET ready == {i \in 1..Len(preds) : ~active_out[preds[i]].isNone}
    IN  IF ready = {} THEN NoneList
        ELSE active_out[preds[CHOOSE i \in ready : \A j \in ready : i >= j]]

\* lsra.py:333-336: the active_out adopted as active_in
adopted_active_in(preds) ==
    LET ready == {i \in 1..Len(preds) : ~active_out[preds[i]].isNone}
    IN  IF ready = {} THEN NoneList
        ELSE active_out[preds[CHOOSE i \in ready : \A j \in ready : i <= j]]

\* lsra.py:340-343
RECURSIVE install_active_in(_, _, _)
install_active_in(S, items, i) ==
    IF i > Len(items) THEN S
    ELSE install_active_in(
             [S EXCEPT !.registers[items[i].reg] = items[i].interval,
                       !.live_in[items[i].interval] = items[i].reg,
                       !.active_intervals = Append(@, items[i].interval)],
             items, i + 1)

\* lsra.py:313-346: the start of a block's scan
BlockStart ==
    /\ pc = "block_start"
    /\ LET b       == block_i
           preds   == ir.blocks[b].predecessors
           cleared == [Cur EXCEPT
                          !.registers = [r \in Regs |-> NoInterval],
                          !.live_in = [i \in Intervals |->
                                          IF Contains(active_intervals, i) THEN None
                                          ELSE live_in[i]],
                          !.active_intervals = <<>>]
           chosen  == adopted_active_in(preds)
           S       == IF preds = <<>> THEN cleared
                      ELSE IF chosen.isNone THEN Raise(cleared, "AssertionError")
                      ELSE install_active_in(cleared, chosen.items, 1)
       IN  /\ current_block' = b
           /\ Store(S)
           /\ active_in' = IF preds # <<>> /\ ~chosen.isNone
                           THEN [active_in EXCEPT ![b] = chosen] ELSE active_in
           /\ tree_i' = 1
           /\ Continue(S, IF Len(TreesOf(b)) > 0 THEN "free_strict" ELSE "block_end")
    /\ UNCHANGED importVars
    /\ UNCHANGED <<ir, num_regs, allow_operand_reuse, saved_reuse, var_intervals,
                   current_tree, tree_reg, tree_operands, active_out, edge_spills,
                   edge_moves, edge_restores, block_i, restore_i>>

\* lsra.py:358-364: the spills already attached to the tree
RECURSIVE apply_spills(_, _, _)
apply_spills(S, spills, i) ==
    IF i > Len(spills) THEN S
    ELSE LET sp == spills[i]
         IN  IF S.live_in[sp.interval] = None \/ sp.reg # S.live_in[sp.interval]
             THEN Raise(S, "AssertionError")
             ELSE IF ~Contains(S.active_intervals, sp.interval) THEN Raise(S, "ValueError")
             ELSE apply_spills(
                      [S EXCEPT !.active_intervals = RemoveFirst(@, sp.interval),
                                !.registers[sp.reg] = NoInterval,
                                !.live_in[sp.interval] = None],
                      spills, i + 1)

\* lsra.py:348-364: next tree, strict freeing, attached spills
FreeStrict ==
    /\ pc = "free_strict"
    /\ LET t  == TreesOf(current_block)[tree_i]
           S1 == free_intervals(Cur, t, FALSE, current_block)
           S  == IF S1.err # "" THEN S1 ELSE apply_spills(S1, tree_spills[t], 1)
       IN  /\ current_tree' = t
           /\ saved_reuse' = allow_operand_reuse
           /\ allow_operand_reuse' = FALSE
           /\ Store(S)
           /\ restore_i' = 1
           /\ Continue(S, IF Len(S.tree_restores[t]) > 0 THEN "restore" ELSE "free_reuse")
    /\ UNCHANGED importVars
    /\ UNCHANGED <<ir, num_regs, var_intervals, current_block, tree_reg, tree_operands,
                   active_in, active_out, edge_spills, edge_moves, edge_restores,
                   block_i, tree_i>>

\* lsra.py:365-369: one restore attached to the tree
Restore ==
    /\ pc = "restore"
    /\ LET t     == current_tree
           inter == tree_restores[t][restore_i].interval
           S1    == IF live_in[inter] # None THEN Raise(Cur, "AssertionError")
                    ELSE activate_interval(Cur, inter, t)
           S     == IF S1.err # "" THEN S1
                    ELSE [S1 EXCEPT !.tree_restores[t][restore_i].reg = S1.live_in[inter]]
       IN  /\ Store(S)
           /\ restore_i' = restore_i + 1
           /\ Continue(S, IF restore_i + 1 <= Len(S.tree_restores[t])
                          THEN "restore" ELSE "free_reuse")
    /\ UNCHANGED importVars
    /\ UNCHANGED <<ir, num_regs, allow_operand_reuse, saved_reuse, var_intervals,
                   current_block, current_tree, tree_reg, tree_operands, active_in,
                   active_out, edge_spills, edge_moves, edge_restores, block_i, tree_i>>

\* lsra.py:371-374: freeing again, operand reuse as configured
FreeReuse ==
    /\ pc = "free_reuse"
    /\ LET S == IF saved_reuse
                THEN free_intervals(Cur, current_tree, TRUE, current_block)
                ELSE Cur
       IN  /\ Store(S)
           /\ Continue(S, "kind")
    /\ allow_operand_reuse' = saved_reuse
    /\ UNCHANGED importVars
    /\ UNCHANGED <<ir, num_regs, saved_reuse, var_intervals, current_block, current_tree,
                   tree_reg, tree_operands, active_in, active_out, edge_spills,
                   edge_moves, edge_restores, block_i, tree_i, restore_i>>

\* the tree loop: on to the next tree of the block, or to the block's end
NextTree(S) ==
    /\ tree_i' = tree_i + 1
    /\ Continue(S, IF tree_i + 1 <= Len(TreesOf(current_block))
                   THEN "free_strict" ELSE "block_end")

\* tree.reg = inter.live_in read before the interval is activated
value_reg_before_activation(before, after, inter) == before.live_in[inter]

\* lsra.py:380 and lsra.py:431: tree.reg = inter.live_in, read once
\* activate_interval has returned
value_reg(before, after, inter) == after.live_in[inter]

\* lsra.py:377-380
ScanLdLocal ==
    /\ pc = "kind"
    /\ ir.kind[current_tree] = "LdLocal"
    /\ LET inter == VarInterval(ir.local[current_tree])
           S     == activate_interval(Cur, inter, current_tree)
       IN  /\ Store(S)
           /\ tree_reg' = IF S.err = "" THEN [tree_reg EXCEPT ![current_tree] =
                                   value_reg(Cur, S, inter)]
                          ELSE tree_reg
           /\ NextTree(S)
    /\ UNCHANGED importVars
    /\ UNCHANGED <<ir, num_regs, allow_operand_reuse, saved_reuse, var_intervals,
                   current_block, current_tree, tree_operands, active_in, active_out,
                   edge_spills, edge_moves, edge_restores, block_i, restore_i>>

\* store_local with the register the variable lived in before left as it is
\* (lsra.py:402-405)
store_local_keeping_old_register(S, inter, rC, cur) ==
    LET occ == S.registers[rC]
        S1  == IF occ # NoInterval /\ IsVar(occ) THEN spill_interval(S, occ, cur)
               ELSE IF occ = NoInterval THEN S
               ELSE IF ~Contains(S.active_intervals, occ) THEN Raise(S, "ValueError")
               ELSE [S EXCEPT !.active_intervals = RemoveFirst(@, occ)]
        S2  == IF S1.live_in[inter] # None THEN S1
               ELSE [S1 EXCEPT !.active_intervals = Append(@, inter)]
    IN  IF rC = S.live_in[inter] THEN S
        ELSE IF rC \notin Regs THEN Raise(S, "IndexError")
        ELSE IF S1.err # "" THEN S1
        ELSE [S2 EXCEPT !.live_in[inter] = rC, !.registers[rC] = inter]

\* lsra.py:392-411: the variable takes the register of the stored value
store_local(S, inter, rC, cur) ==
    LET occ == S.registers[rC]
        S1  == IF occ # NoInterval /\ IsVar(occ) THEN spill_interval(S, occ, cur)
               ELSE IF occ = NoInterval THEN S
               ELSE IF ~Contains(S.active_intervals, occ) THEN Raise(S, "ValueError")
               ELSE [S EXCEPT !.active_intervals = RemoveFirst(@, occ)]
        S2  == IF S1.live_in[inter] # None
               THEN [S1 EXCEPT !.registers[S1.live_in[inter]] = NoInterval]
               ELSE [S1 EXCEPT !.active_intervals = Append(@, inter)]
    IN  IF rC = S.live_in[inter] THEN S
        ELSE IF rC \notin Regs THEN Raise(S, "IndexError")
        ELSE IF S1.err # "" THEN S1
        ELSE [S2 EXCEPT !.live_in[inter] = rC, !.registers[rC] = inter]

\* lsra.py:388-417
ScanStLocal ==
    /\ pc = "kind"
    /\ ir.kind[current_tree] = "StLocal"
    /\ LET inter == VarInterval(ir.local[current_tree])
           rC    == tree_reg[ir.subtrees[current_tree][1]]
           S     == store_local(Cur, inter, rC, current_tree)
       IN  /\ Store(S)
           /\ tree_operands' = IF S.err = ""
                               THEN [tree_operands EXCEPT ![current_tree] =
                                         Append(@, S.live_in[inter])]
                               ELSE tree_operands
           /\ NextTree(S)
    /\ UNCHANGED importVars
    /\ UNCHANGED <<ir, num_regs, allow_operand_reuse, saved_reuse, var_intervals,
                   current_block, current_tree, tree_reg, active_in, active_out,
                   edge_spills, edge_moves, edge_restores, block_i, restore_i>>

\* lsra.py:420-431: a tree with a parent produces a value in a tree temp
ScanValue ==
    /\ pc = "kind"
    /\ ir.kind[current_tree] \notin {"LdLocal", "StLocal"}
    /\ ir.parent[current_tree] # None
    /\ LET inter == TmpInterval(current_tree)
           S     == activate_interval(Cur, inter, current_tree)
       IN  /\ Store(S)
           /\ tree_reg' = IF S.err = "" THEN [tree_reg EXCEPT ![current_tree] =
                                   value_reg(Cur, S, inter)]
                          ELSE tree_reg
           /\ NextTree(S)
    /\ UNCHANGED importVars
    /\ UNCHANGED <<ir, num_regs, allow_operand_reuse, saved_reuse, var_intervals,
                   current_block, current_tree, tree_operands, active_in, active_out,
                   edge_spills, edge_moves, edge_restores, block_i, restore_i>>

\* Discard and the terminators: no interval, no register
ScanRoot ==
    /\ pc = "kind"
    /\ ir.kind[current_tree] \notin {"LdLocal", "StLocal"}
    /\ ir.parent[current_tree] = None
    /\ NextTree(Cur)
    /\ UNCHANGED importVars
    /\ UNCHANGED <<ir, num_regs, allow_operand_reuse, saved_reuse, var_intervals, registers,
                   live_in, active_intervals, current_block, current_tree, tree_reg,
                   tree_spills, tree_restores, tree_operands, active_in, active_out,
                   edge_spills, edge_moves, edge_restores, block_i, restore_i>>

\* lsra.py:435-442: tree temps still active leave the active set
drop_tree_temps(S) ==
    LET RECURSIVE Loop(_, _, _)
        Loop(i, T, kept) ==
            IF i > Len(S.active_intervals) THEN [T EXCEPT !.active_intervals = kept]
            ELSE LET inter == S.active_intervals[i]
                 IN  IF IsVar(inter) THEN Loop(i + 1, T, Append(kept, inter))
                     ELSE IF T.live_in[inter] = None THEN Raise(T, "TypeError")
                     ELSE Loop(i + 1,
                               [T EXCEPT !.registers[T.live_in[inter]] = NoInterval,
                                         !.live_in[inter] = None],
                               kept)
    IN  Loop(1, S, <<>>)

\* lsra.py:433-451: the end of a block's scan
BlockEnd ==
    /\ pc = "block_end"
    /\ LET S == drop_tree_temps(Cur)
       IN  /\ Store(S)
           /\ active_out' =
                  IF S.err # "" THEN active_out
                  ELSE [active_out EXCEPT ![current_block] =
                           SomeList([i \in 1..Len(S.active_intervals) |->
                                        [reg |-> S.live_in[S.active_intervals[i]],
                                         interval |-> S.active_intervals[i]]])]
           /\ block_i' = block_i + 1
           /\ Continue(S, IF block_i + 1 <= Len(ir.blocks) THEN "block_start" ELSE "resolve")
    /\ UNCHANGED importVars
    /\ UNCHANGED <<ir, num_regs, allow_operand_reuse, saved_reuse, var_intervals,
                   current_block, current_tree, tree_reg, tree_operands, active_in,
                   edge_spills, edge_moves, edge_restores, tree_i, restore_i>>

\* lsra.py:457-459
edge_spills_of(out, inn) ==
    LET keep(i) == ~\E j \in 1..Len(inn) : inn[j].interval[2] = out[i].interval[2]
        RECURSIVE Loop(_)
        Loop(i) == IF i > Len(out) THEN <<>>
                   ELSE (IF keep(i) THEN <<[reg |-> out[i].reg, interval |-> out[i].interval]>>
                         ELSE <<>>) \o Loop(i + 1)
    IN  Loop(1)

\* a move for every variable active on both sides, whatever its registers
edge_moves_regardless_of_reg(out, inn) ==
    LET RECURSIVE Loop(_, _)
        Loop(i, j) ==
            IF i > Len(out) THEN <<>>
            ELSE IF j > Len(inn) THEN Loop(i + 1, 1)
            ELSE (IF out[i].interval[2] = inn[j].interval[2]
                  THEN <<[reg_from |-> out[i].reg, reg_to |-> inn[j].reg,
                          interval |-> out[i].interval]>>
                  ELSE <<>>) \o Loop(i, j + 1)
    IN  Loop(1, 1)

\* lsra.py:462-466
edge_moves_of(out, inn) ==
    LET RECURSIVE Loop(_, _)
        Loop(i, j) ==
            IF i > Len(out) THEN <<>>
            ELSE IF j > Len(inn) THEN Loop(i + 1, 1)
            ELSE (IF out[i].interval[2] = inn[j].interval[2] /\ out[i].reg # inn[j].reg
                  THEN <<[reg_from |-> out[i].reg, reg_to |-> inn[j].reg,
                          interval |-> out[i].interval]>>
                  ELSE <<>>) \o Loop(i, j + 1)
    IN  Loop(1, 1)

\* lsra.py:469-472
edge_restores_of(out, inn) ==
    LET keep(j) == ~\E i \in 1..Len(out) : out[i].interval[2] = inn[j].interval[2]
        RECURSIVE Loop(_)
        Loop(j) == IF j > Len(inn) THEN <<>>
                   ELSE (IF keep(j) THEN <<[reg |-> inn[j].reg, interval |-> inn[j].interval]>>
                         ELSE <<>>) \o Loop(j + 1)
    IN  Loop(1)

EdgesOf(b) == {<<b, k>> : k \in 1..Len(ir.blocks[b].edges)}
AllEdges == UNION {EdgesOf(b) : b \in Blocks}
Target(e) == ir.blocks[e[1]].edges[e[2]]

\* Phase C, lsra.py:453-472
Resolve ==
    /\ pc = "resolve"
    /\ LET bad == \E e \in AllEdges : active_in[Target(e)].isNone
           out(e) == active_out[e[1]].items
           inn(e) == active_in[Target(e)].items
       IN  /\ edge_spills' = IF bad THEN edge_spills
                             ELSE [e \in Edges |-> IF e \in AllEdges
                                                   THEN edge_spills_of(out(e), inn(e)) ELSE <<>>]
           /\ edge_moves' = IF bad THEN edge_moves
                            ELSE [e \in Edges |-> IF e \in AllEdges
                                                  THEN edge_moves_of(out(e), inn(e)) ELSE <<>>]
           /\ edge_restores' = IF bad THEN edge_restores
                               ELSE [e \in Edges |-> IF e \in AllEdges
                                                     THEN edge_restores_of(out(e), inn(e)) ELSE <<>>]
           /\ pc' = IF bad THEN "raised" ELSE "done"
           /\ err' = IF bad THEN "TypeError" ELSE ""
    /\ UNCHANGED importVars
    /\ UNCHANGED <<ir, num_regs, allow_operand_reuse, saved_reuse, var_intervals, registers,
                   live_in, active_intervals, current_block, current_tree, tree_reg,
                   tree_spills, tree_restores, tree_operands, active_in, active_out,
                   block_i, tree_i, restore_i>>

NoPending == [kind |-> "none", operands |-> <<>>]
NoCall == [op |-> "none", il_idx |-> None, before |-> <<>>, block |-> None, err |-> ""]

\* import_to_ir is not part of the run: the Ir is given
NoImport ==
    /\ fn = <<>>
    /\ heap = <<>>
    /\ import_block = None
    /\ tree_stack = <<>>
    /\ i_ins = 0
    /\ i_stmt_start = 0
    /\ pending = NoPending
    /\ last_call = NoCall

\* Lsra.__init__ (lsra.py:108-117) on an Ir that import, recompute_predecessors
\* and reindex have prepared
InitWith(irs, regs) ==
    /\ ir \in irs
    /\ num_regs \in regs
    /\ allow_operand_reuse \in BOOLEAN
    /\ saved_reuse = allow_operand_reuse
    /\ var_intervals = <<>>
    /\ registers = [r \in 0..(num_regs - 1) |-> NoInterval]
    /\ live_in = [i \in {VarInterval(v) : v \in 0..(ir.local_vars - 1)}
                       \cup {TmpInterval(t) : t \in 0..(ir.ir_idx_count - 1)} |-> None]
    /\ active_intervals = <<>>
    /\ current_block = None
    /\ current_tree = None
    /\ tree_reg = [t \in 0..(ir.ir_idx_count - 1) |-> UnsetReg]
    /\ tree_spills = [t \in 0..(ir.ir_idx_count - 1) |-> <<>>]
    /\ tree_restores = [t \in 0..(ir.ir_idx_count - 1) |-> <<>>]
    /\ tree_operands = [t \in 0..(ir.ir_idx_count - 1) |-> <<>>]
    /\ active_in = [b \in 1..Len(ir.blocks) |-> NoneList]
    /\ active_out = [b \in 1..Len(ir.blocks) |-> NoneList]
    /\ edge_spills = [e \in {<<b, k>> : b \in 1..Len(ir.blocks), k \in 1..2} |-> <<>>]
    /\ edge_moves = [e \in {<<b, k>> : b \in 1..Len(ir.blocks), k \in 1..2} |-> <<>>]
    /\ edge_restores = [e \in {<<b, k>> : b \in 1..Len(ir.blocks), k \in 1..2} |-> <<>>]
    /\ block_i = 1
    /\ tree_i = 1
    /\ restore_i = 1
    /\ pc = "discover"
    /\ err = ""
    /\ NoImport

InitOn(irs) == InitWith(irs, 1..MaxRegs)

Next ==
    \/ DiscoverIntervals
    \/ BlockStart
    \/ FreeStrict
    \/ Restore
    \/ FreeReuse
    \/ ScanLdLocal
    \/ ScanStLocal
    \/ ScanValue
    \/ ScanRoot
    \/ BlockEnd
    \/ Resolve

\* do_linear_scan on straight-line functions
Init == InitOn(StraightLineIrs(MaxTrees))
Spec == Init /\ [][Next]_vars

\* do_linear_scan on functions with control flow
InitCfg == InitOn(CfgIrs(MaxCfgTrees))
SpecCfg == InitCfg /\ [][Next]_vars

\* straight-line functions of at most n trees over MaxStoreLocals local
\* variables: one variable can be stored into the register of another
StoreIrs(n) ==
    {MakeIr(bl, MaxStoreLocals) :
        bl \in {x \in BlockLists(1, n, MaxStoreLocals, 1) :
                   /\ Last(x[1]).kind = "Ret"
                   /\ CanonicalLocals(Flatten(x), 1, 0)}}

\* do_linear_scan on straight-line functions of several variables
InitStores == InitOn(StoreIrs(MaxStoreTrees))
SpecStores == InitStores /\ [][Next]_vars

\* a function of two variables that spills the value of a BinOp and restores
\* it before storing into the second variable:
\* v1 = (1 + v0) + (1 + (v0 + 1)); return v0
shared_ins ==
    LET L == Tok("LdLocal", 0, <<>>)
        C == Tok("Const", -1, <<>>)
        B == Tok("BinOp", -1, <<>>)
        S == Tok("StLocal", 1, <<>>)
        R == Tok("Ret", -1, <<>>)
    IN  <<C, L, B, C, L, C, B, B, B, S, L, R>>

SharedRegs == 3
SharedIr == MakeIr(<<shared_ins>>, MaxStoreLocals)

\* do_linear_scan with three registers on that function and on the
\* straight-line functions of two variables of at most MaxSharedTrees trees
InitShared == InitWith({SharedIr} \cup StoreIrs(MaxSharedTrees), {SharedRegs})
SpecShared == InitShared /\ [][Next]_vars

\* functions of at most MaxLoopBlocks blocks and n trees in which any block,
\* the entry block included, may be the target of a jump
LoopIrs(n) ==
    UNION {{MakeIr(bl, MaxLocals) :
               bl \in {x \in BlockLists(nb, n, MaxLocals, nb) :
                          CanonicalLocals(Flatten(x), 1, 0)}} :
           nb \in 1..MaxLoopBlocks}

\* do_linear_scan on functions whose entry block may have predecessors
InitLoops == InitOn(LoopIrs(MaxLoopTrees))
SpecLoops == InitLoops /\ [][Next]_vars

(***************************************************************************)
(* The entry point (main.py): the demo function allocated by Lsra() with   *)
(* its default arguments.                                                  *)
(***************************************************************************)
\* main.py:5-38: the trees of the demo's instructions in execution order
\* (a Push becomes a Const tree, an Add a BinOp tree)
main_ins ==
    LET L == Tok("LdLocal", 0, <<>>)
        C == Tok("Const", -1, <<>>)
        B == Tok("BinOp", -1, <<>>)
        R == Tok("Ret", -1, <<>>)
    IN  <<L, L, B, C, C, B, B, C, C, B, C, C, B, B, B,
          L, L, B, C, C, B, B, C, C, B, C, C, B, B, B, B, R>>

\* main.py:39: local_vars of the demo function
DemoLocals == 5

\* lsra.py:108: the default num_regs of Lsra()
DefaultRegs == 4

\* the Ir of the demo function: one block
DemoIr == MakeIr(<<main_ins>>, DemoLocals)

\* do_linear_scan with Lsra's default number of registers, on the demo
\* function and on the straight-line functions of at most MaxDemoTrees trees
InitDemo == InitWith({DemoIr} \cup StraightLineIrs(MaxDemoTrees), {DefaultRegs})
SpecDemo == InitDemo /\ [][Next]_vars

(***************************************************************************)
(* Properties of do_linear_scan.                                           *)
(***************************************************************************)
\* do_linear_scan is between two of its steps and has not raised
Scanning == pc \in {"block_start", "free_strict", "restore", "free_reuse", "kind", "block_end"}

\* how often x occurs in the sequence s
Occurrences(s, x) == Cardinality({i \in 1..Len(s) : s[i] = x})

\* C1: at every step of do_linear_scan every occupied register holds an
\* interval whose live_in is that register, and every active interval is in
\* active_intervals exactly once and is the active_interval of the register
\* its live_in names.
RegisterFileAgreesWithActiveSet ==
    Scanning =>
        /\ \A r \in Regs : registers[r] # NoInterval => live_in[registers[r]] = r
        /\ \A i \in 1..Len(active_intervals) :
               LET inter == active_intervals[i]
               IN  /\ Occurrences(active_intervals, inter) = 1
                   /\ live_in[inter] \in Regs
                   /\ registers[live_in[inter]] = inter

\* C2: at every step of do_linear_scan no two distinct active intervals have
\* the same live_in register.
RegisterExclusivity ==
    Scanning =>
        \A i, j \in 1..Len(active_intervals) :
            active_intervals[i] # active_intervals[j]
                => live_in[active_intervals[i]] # live_in[active_intervals[j]]

\* the interval holding the value a tree produces
value_interval(t) ==
    IF ir.kind[t] = "LdLocal" THEN VarInterval(ir.local[t]) ELSE TmpInterval(t)

\* C3: when a tree with subtrees is processed, after its attached spills and
\* restores are applied and before operand-reuse freeing, the register named
\* by each subtree's reg holds the interval of that subtree's value.
OperandIntegrity ==
    pc = "free_reuse" =>
        \A k \in 1..Len(ir.subtrees[current_tree]) :
            LET sub == ir.subtrees[current_tree][k]
            IN  /\ tree_reg[sub] \in Regs
                /\ registers[tree_reg[sub]] = value_interval(sub)

\* the (register, variable) pairs of an active_in / active_out list
Pairs(items) == {<<items[i].reg, items[i].interval>> : i \in 1..Len(items)}
VarsIn(items) == {items[i].interval : i \in 1..Len(items)}
RegIn(items, v) == items[CHOOSE i \in 1..Len(items) : items[i].interval = v].reg

\* C4: after do_linear_scan every edge B -> T holds exactly one SpillRec for
\* each variable of B.active_out absent from T.active_in, exactly one RegMove
\* for each variable in both with different registers, exactly one RestoreRec
\* for each variable of T.active_in absent from B.active_out, and nothing
\* else; B.active_out updated by the edge's records equals T.active_in as a
\* set of (register, variable) pairs.
EdgeClosure ==
    pc = "done" =>
        \A e \in AllEdges :
            LET out == active_out[e[1]].items
                inn == active_in[Target(e)].items
                gone  == VarsIn(out) \ VarsIn(inn)
                moved == {v \in VarsIn(out) \cap VarsIn(inn) : RegIn(out, v) # RegIn(inn, v)}
                new   == VarsIn(inn) \ VarsIn(out)
                sp == edge_spills[e]
                mv == edge_moves[e]
                rs == edge_restores[e]
            IN  /\ \A v \in gone :
                       Occurrences(sp, [reg |-> RegIn(out, v), interval |-> v]) = 1
                /\ Len(sp) = Cardinality(gone)
                /\ \A v \in moved :
                       Occurrences(mv, [reg_from |-> RegIn(out, v), reg_to |-> RegIn(inn, v),
                                        interval |-> v]) = 1
                /\ Len(mv) = Cardinality(moved)
                /\ \A v \in new :
                       Occurrences(rs, [reg |-> RegIn(inn, v), interval |-> v]) = 1
                /\ Len(rs) = Cardinality(new)
                /\ ((Pairs(out) \ ({<<sp[i].reg, sp[i].interval>> : i \in 1..Len(sp)}
                                   \cup {<<mv[i].reg_from, mv[i].interval>> : i \in 1..Len(mv)}))
                    \cup {<<mv[i].reg_to, mv[i].interval>> : i \in 1..Len(mv)}
                    \cup {<<rs[i].reg, rs[i].interval>> : i \in 1..Len(rs)}) = Pairs(inn)

\* an allocation that completed with a move on one edge and a restore on an
\* edge
EdgeClosureWitness ==
    /\ pc = "done"
    /\ \E e \in AllEdges : edge_moves[e] # <<>>
    /\ \E e \in AllEdges : edge_restores[e] # <<>>

\* C5: after do_linear_scan completes every tree that has a parent and whose
\* kind produces a value has 0 <= reg < num_regs.
AssignedRegs ==
    pc = "done" =>
        \A t \in Trees :
            (ir.parent[t] # None /\ ir.kind[t] \in ValueKinds)
                => (tree_reg[t] >= 0 /\ tree_reg[t] < num_regs)

\* an allocation that completed after spilling, with value trees in both of
\* two registers
AssignedRegsWitness ==
    /\ pc = "done"
    /\ \E t \in Trees : tree_spills[t] # <<>>
    /\ \E t, u \in Trees : /\ ir.parent[t] # None /\ ir.parent[u] # None
                           /\ tree_reg[t] = 0 /\ tree_reg[u] = 1

\* the interval the next step of do_linear_scan calls activate_interval
\* for, NoInterval if it calls it for none (lsra.py:367, 379, 428)
Activated ==
    IF pc = "restore" /\ live_in[tree_restores[current_tree][restore_i].interval] = None
    THEN tree_restores[current_tree][restore_i].interval
    ELSE IF pc = "kind" /\ ir.kind[current_tree] = "LdLocal"
    THEN VarInterval(ir.local[current_tree])
    ELSE IF pc = "kind" /\ ir.kind[current_tree] # "StLocal" /\ ir.parent[current_tree] # None
    THEN TmpInterval(current_tree)
    ELSE NoInterval

\* the interval is not active, no register is free and every active interval
\* is used next at or before the next use of the interval
Starved(inter) ==
    /\ live_in[inter] = None
    /\ \A r \in Regs : registers[r] # NoInterval
    /\ first_use_pos(inter, current_tree) # None
    /\ \A i \in 1..Len(active_intervals) :
           /\ first_use_pos(active_intervals[i], current_tree) # None
           /\ first_use_pos(active_intervals[i], current_tree)
                  <= first_use_pos(inter, current_tree)

\* C18: when activate_interval is called for an inactive interval, no
\* register is free and every active interval's next use is at or before
\* that of the interval, the allocator raises, appends no SpillRec and no
\* RestoreRec, and leaves the registers, the active set and the interval's
\* live_in as they were.
RegisterStarvation ==
    [][(Activated # NoInterval /\ Starved(Activated)) =>
           /\ pc' = "raised"
           /\ err' = "No intervals elligible for spilling"
           /\ registers' = registers
           /\ active_intervals' = active_intervals
           /\ live_in' = live_in
           /\ tree_spills' = tree_spills
           /\ tree_restores' = tree_restores]_vars

\* the allocator raised for want of a spill candidate with both of two
\* registers occupied by active intervals
RegisterStarvationWitness ==
    /\ pc = "raised"
    /\ err = "No intervals elligible for spilling"
    /\ num_regs = 2
    /\ \A r \in Regs : registers[r] # NoInterval
    /\ Len(active_intervals) = 2

\* C19: with allow_operand_reuse = false the register of every processed
\* BinOp differs from the registers of both of its operand subtrees, be they
\* tree temps or LdLocal values.
FreshBinOpRegister ==
    ~saved_reuse =>
        \A t \in Trees :
            (ir.kind[t] = "BinOp" /\ tree_reg[t] # UnsetReg) =>
                \A k \in 1..Len(ir.subtrees[t]) : tree_reg[ir.subtrees[t][k]] # tree_reg[t]

\* the Ir of LdLocal 0, LdLocal 0, Add, Ret given to an allocator of two
\* registers: one block with the trees LdLocal 0, LdLocal 0, BinOp, Ret
TwoLoadsAdd ==
    /\ num_regs = 2
    /\ ir.ir_idx_count = 4
    /\ Len(ir.blocks) = 1
    /\ ir.kind[0] = "LdLocal" /\ ir.local[0] = 0
    /\ ir.kind[1] = "LdLocal" /\ ir.local[1] = 0
    /\ ir.kind[2] = "BinOp"
    /\ ir.kind[3] = "Ret"

\* whether do_linear_scan has ended, by returning or by raising
Ended == pc \in {"done", "raised"}

\* C20: for LdLocal 0, LdLocal 0, Add, Ret with two registers the allocation
\* returns with the value trees in registers 0, 1, 0 in that order, and no
\* tree carries a SpillRec.
TwoLoadsAddRegisters ==
    (TwoLoadsAdd /\ Ended) =>
        /\ pc = "done"
        /\ tree_reg[0] = 0 /\ tree_reg[1] = 1 /\ tree_reg[2] = 0
        /\ \A t \in Trees : tree_spills[t] = <<>>

\* C20, as the allocator behaves: for LdLocal 0, LdLocal 0, Add, Ret with two
\* registers the allocation returns with both loads in register 0, the
\* register of the variable, and the sum in register 1, and no tree carries a
\* SpillRec.
TwoLoadsAddShareRegister ==
    (TwoLoadsAdd /\ Ended) =>
        /\ pc = "done"
        /\ tree_reg[0] = 0 /\ tree_reg[1] = 0 /\ tree_reg[2] = 1
        /\ tree_reg[3] = UnsetReg
        /\ \A t \in Trees : tree_spills[t] = <<>>

TwoLoadsAddWitness ==
    /\ TwoLoadsAdd
    /\ pc = "done"
    /\ ~allow_operand_reuse
    /\ tree_reg[2] = 1
    /\ tree_restores[0] # <<>>

\* the demo function of the entry point, allocated as the entry point does:
\* four registers, operand reuse allowed
DemoAllocation == ir = DemoIr /\ num_regs = DefaultRegs /\ saved_reuse

\* the SpillRecs attached to trees, as <<tree, place in Tree.spills>>
TreeSpillRecs == {<<t, k>> \in Trees \X (1..MaxSpillRecs) : k <= Len(tree_spills[t])}

\* the interval of a SpillRec has a RestoreRec on a later tree
RestoredLater(sp) ==
    \E u \in Trees :
        /\ u > sp[1]
        /\ \E j \in 1..Len(tree_restores[u]) :
               tree_restores[u][j].interval = tree_spills[sp[1]][sp[2]].interval

\* C21: allocating the demo function of the entry point with four registers
\* returns with at least one SpillRec of a tree temp, and every SpillRec on a
\* tree has a RestoreRec for the same interval on a later tree.
DemoSpillsRestored ==
    (DemoAllocation /\ Ended) =>
        /\ pc = "done"
        /\ \E sp \in TreeSpillRecs : IsTmp(tree_spills[sp[1]][sp[2]].interval)
        /\ \A sp \in TreeSpillRecs : RestoredLater(sp)

\* C21, as the allocator behaves: allocating the demo function with four
\* registers and operand reuse returns with a SpillRec of a tree temp, every
\* SpillRec of a tree temp has a RestoreRec for the same interval on a later
\* tree, and the SpillRec of variable 0 on tree 19, after the last load of
\* the variable, has none.
DemoTempSpillsRestored ==
    (DemoAllocation /\ Ended) =>
        /\ pc = "done"
        /\ \E sp \in TreeSpillRecs : IsTmp(tree_spills[sp[1]][sp[2]].interval)
        /\ \A sp \in TreeSpillRecs :
               IsTmp(tree_spills[sp[1]][sp[2]].interval) => RestoredLater(sp)
        /\ tree_spills[19] = <<[reg |-> 1, interval |-> VarInterval(0)]>>
        /\ ~RestoredLater(<<19, 1>>)

DemoWitness ==
    /\ DemoAllocation
    /\ pc = "done"
    /\ tree_spills[26] = <<[reg |-> 0, interval |-> TmpInterval(14)]>>
    /\ tree_restores[30] = <<[reg |-> 1, interval |-> TmpInterval(14)]>>

\* C22: whenever do_linear_scan starts the scan of a block that has a
\* predecessor, one of its predecessors has its active_out computed, the
\* entry block and the targets of backward jumps included.
PredecessorScanned ==
    pc = "block_start" =>
        LET preds == ir.blocks[block_i].predecessors
        IN  preds # <<>> => \E i \in 1..Len(preds) : ~active_out[preds[i]].isNone

\* the next use of an interval from the current tree on, None if it has none
NextUse(inter) == first_use_pos(inter, current_tree)

\* the places in the active set of the intervals without a next use, and of
\* those whose next use is strictly after that of the interval
DeadActive == {i \in 1..Len(active_intervals) : NextUse(active_intervals[i]) = None}
EligibleActive(inter) ==
    {i \in 1..Len(active_intervals) :
        /\ NextUse(active_intervals[i]) # None
        /\ NextUse(active_intervals[i]) > NextUse(inter)}

\* the eligible place of greatest next use, the first of them on ties
Furthest(inter, i) ==
    /\ i \in EligibleActive(inter)
    /\ \A j \in EligibleActive(inter) :
           /\ NextUse(active_intervals[j]) <= NextUse(active_intervals[i])
           /\ NextUse(active_intervals[j]) = NextUse(active_intervals[i]) => i <= j

\* the next step calls activate_interval for an inactive interval that has a
\* next use while every register is occupied
ActivationSpills ==
    /\ Activated # NoInterval
    /\ live_in[Activated] = None
    /\ \A r \in Regs : registers[r] # NoInterval
    /\ NextUse(Activated) # None

\* the step appends the SpillRec of the interval to the current tree and
\* installs the activated interval in the register it frees
SpilledFor(victim) ==
    /\ tree_spills'[current_tree] =
           Append(tree_spills[current_tree], [reg |-> live_in[victim], interval |-> victim])
    /\ live_in'[Activated] = live_in[victim]

\* C23: when activate_interval finds no free register and spills, the
\* interval it spills is, among the active intervals whose next use is
\* strictly after the next use of the activated interval, the one of greatest
\* next use, the first in active-set order on ties, and never an interval
\* outside that set.
SpillsFurthestEligible ==
    [][(ActivationSpills /\ tree_spills'[current_tree] # tree_spills[current_tree]) =>
           \E i \in 1..Len(active_intervals) :
               Furthest(Activated, i) /\ SpilledFor(active_intervals[i])]_vars

\* C23, as the allocator behaves: when activate_interval finds no free
\* register, it spills the first interval of the active set that has no next
\* use, if there is one; otherwise, among the active intervals whose next use
\* is strictly after that of the activated interval, the one of greatest next
\* use, the first in active-set order on ties; and nothing else.
SpillsDeadThenFurthest ==
    [][ActivationSpills =>
           /\ DeadActive # {} =>
                  \E i \in DeadActive :
                      /\ \A j \in DeadActive : i <= j
                      /\ SpilledFor(active_intervals[i])
           /\ (DeadActive = {} /\ EligibleActive(Activated) # {}) =>
                  \E i \in 1..Len(active_intervals) :
                      Furthest(Activated, i) /\ SpilledFor(active_intervals[i])
           /\ (DeadActive = {} /\ EligibleActive(Activated) = {}) =>
                  tree_spills' = tree_spills]_vars

\* a tree temp was spilled for the value of the current tree while an active
\* interval of nearer next use kept its register
SpillVictimWitness ==
    /\ Scanning
    /\ current_tree # None
    /\ \E k \in 1..Len(tree_spills[current_tree]) :
           LET sp == tree_spills[current_tree][k]
           IN  /\ IsTmp(sp.interval)
               /\ live_in[TmpInterval(current_tree)] = sp.reg
               /\ \E i \in 1..Len(active_intervals) :
                      /\ active_intervals[i] # TmpInterval(current_tree)
                      /\ NextUse(active_intervals[i]) # None
                      /\ NextUse(active_intervals[i]) < NextUse(sp.interval)

\* the step appends one SpillRec to the current tree and does not raise
SpillStep ==
    /\ pc \in {"restore", "kind"}
    /\ pc' # "raised"
    /\ Len(tree_spills'[current_tree]) = Len(tree_spills[current_tree]) + 1

\* the SpillRec the step appends
NewSpill == tree_spills'[current_tree][Len(tree_spills'[current_tree])]

\* the step appends no RestoreRec to any tree
NoRestoreAppended == \A u \in Trees : Len(tree_restores'[u]) = Len(tree_restores[u])

\* the step appends the placeholder RestoreRec(-1, v) to the tree of the next
\* use of v and no RestoreRec to any other tree
PlaceholderAppended(v) ==
    /\ NextUse(v) # None
    /\ tree_restores'[NextUse(v)] =
           Append(tree_restores[NextUse(v)], [reg |-> UnsetReg, interval |-> v])
    /\ \A u \in Trees \ {NextUse(v)} : Len(tree_restores'[u]) = Len(tree_restores[u])

\* the SpillRec names the register in the victim's live_in, the victim has left
\* the active set, its live_in is cleared and the register its live_in named
\* no longer holds it
VictimLeaves(sp) ==
    /\ sp.reg = live_in[sp.interval]
    /\ ~Contains(active_intervals', sp.interval)
    /\ live_in'[sp.interval] = None
    /\ registers'[sp.reg] # sp.interval

\* C24: spilling a victim appends SpillRec(victim's register, victim) to the
\* current tree, removes the victim from the active set and clears its
\* live_in and its register; for a variable the placeholder RestoreRec(-1,
\* victim) is appended to the tree of its next use, for a tree temp no
\* RestoreRec is appended anywhere.
SpillRecords ==
    [][SpillStep =>
           /\ VictimLeaves(NewSpill)
           /\ \A r \in Regs : registers'[r] # NewSpill.interval
           /\ (IsVar(NewSpill.interval) /\ NextUse(NewSpill.interval) # None)
                  => PlaceholderAppended(NewSpill.interval)
           /\ IsTmp(NewSpill.interval) => NoRestoreAppended]_vars

\* C24, as the allocator behaves: spilling a victim appends SpillRec(the
\* victim's live_in, victim) to the current tree, removes the victim from the
\* active set, clears its live_in and leaves it in no register; for a tree temp the placeholder RestoreRec(-1, victim) is appended to the
\* tree of its next use, for a variable no RestoreRec is appended anywhere.
SpillRecordsOfTemps ==
    [][SpillStep =>
           /\ VictimLeaves(NewSpill)
           /\ \A r \in Regs : registers'[r] # NewSpill.interval
           /\ IsTmp(NewSpill.interval) => PlaceholderAppended(NewSpill.interval)
           /\ IsVar(NewSpill.interval) => NoRestoreAppended]_vars

\* a tree temp has just been spilled on the current tree: it is out of its
\* register and its placeholder RestoreRec waits on the tree of its next use
SpillRecordsWitness ==
    /\ Scanning
    /\ current_tree # None
    /\ \E k \in 1..Len(tree_spills[current_tree]) :
           LET v == tree_spills[current_tree][k].interval
           IN  /\ IsTmp(v)
               /\ live_in[v] = None
               /\ NextUse(v) # None
               /\ Contains(tree_restores[NextUse(v)], [reg |-> UnsetReg, interval |-> v])

\* the free registers, and those of them after the first whose index is the
\* reg of a subtree of the tree where the interval is used next
FreeRegs == {r \in Regs : registers[r] = NoInterval}
OperandFreeRegs(inter) ==
    {r \in FreeRegs :
        /\ \E q \in FreeRegs : q < r
        /\ NextUse(inter) # None
        /\ \E k \in 1..Len(ir.subtrees[NextUse(inter)]) :
               tree_reg[ir.subtrees[NextUse(inter)][k]] = r}

\* the register the interval is to be installed in: the first free register
\* that is an operand's, the lowest free register if there is none
PreferredReg(inter) ==
    IF OperandFreeRegs(inter) # {}
    THEN CHOOSE r \in OperandFreeRegs(inter) : \A q \in OperandFreeRegs(inter) : r <= q
    ELSE CHOOSE r \in FreeRegs : \A q \in FreeRegs : r <= q

\* C25: try_activate_with_free_reg installs the interval in the lowest free
\* register, or in a later free register whose index is the reg of a subtree
\* of the interval's next-use tree if there is one; the interval's live_in and
\* the reg of a RestoreRec appended for it name the register it was installed
\* in.
FreeRegisterInstall ==
    [][(Activated # NoInterval /\ live_in[Activated] = None /\ FreeRegs # {}
            /\ pc' # "raised") =>
           /\ registers'[PreferredReg(Activated)] = Activated
           /\ live_in'[Activated] = PreferredReg(Activated)
           /\ \A k \in 1..Len(tree_restores'[current_tree]) :
                  (k > Len(tree_restores[current_tree])
                      /\ tree_restores'[current_tree][k].interval = Activated)
                      => tree_restores'[current_tree][k].reg = PreferredReg(Activated)]_vars

\* the next step processes a StLocal and does not raise
StoreStep == pc = "kind" /\ ir.kind[current_tree] = "StLocal" /\ pc' # "raised"

\* the variable the StLocal writes, the register of its child and the
\* interval that register holds before the step
Stored == VarInterval(ir.local[current_tree])
ChildReg == tree_reg[ir.subtrees[current_tree][1]]
Occupant == registers[ChildReg]

\* C26: after a StLocal l whose child has register rC is processed, the
\* variable interval of l is in the active set exactly once with live_in =
\* rC, register rC holds it and any other register it occupied is empty; a
\* different variable that occupied rC has been spilled with a SpillRec on
\* the StLocal tree, and a tree temp that occupied rC has left the active set.
StoreAdoptsChildRegister ==
    [][StoreStep =>
           /\ Occurrences(active_intervals', Stored) = 1
           /\ live_in'[Stored] = ChildReg
           /\ registers'[ChildReg] = Stored
           /\ \A r \in Regs \ {ChildReg} : registers'[r] # Stored
           /\ (Occupant # NoInterval /\ IsVar(Occupant) /\ Occupant # Stored) =>
                  /\ Contains(tree_spills'[current_tree],
                              [reg |-> ChildReg, interval |-> Occupant])
                  /\ ~Contains(active_intervals', Occupant)
                  /\ live_in'[Occupant] = None
           /\ (Occupant # NoInterval /\ IsTmp(Occupant)) =>
                  ~Contains(active_intervals', Occupant)]_vars

\* a StLocal has just spilled another variable out of the register of its
\* child
StoreSpillsWitness ==
    /\ Scanning
    /\ current_tree # None
    /\ ir.kind[current_tree] = "StLocal"
    /\ tree_operands[current_tree] # <<>>
    /\ \E k \in 1..Len(tree_spills[current_tree]) :
           /\ IsVar(tree_spills[current_tree][k].interval)
           /\ tree_spills[current_tree][k].interval # VarInterval(ir.local[current_tree])
           /\ tree_spills[current_tree][k].reg = tree_operands[current_tree][1]

\* the next step starts the scan of a block and does not raise
BlockStartStep == pc = "block_start" /\ pc' # "raised"

\* the places in the block's predecessor list of the blocks whose active_out
\* is computed
Ready == {i \in 1..Len(ir.blocks[block_i].predecessors) :
             ~active_out[ir.blocks[block_i].predecessors[i]].isNone}

\* the active_out of the first predecessor that has one, the empty list for a
\* block without predecessors
Adopted ==
    IF ir.blocks[block_i].predecessors = <<>> THEN <<>>
    ELSE active_out[ir.blocks[block_i].predecessors[
             CHOOSE i \in Ready : \A j \in Ready : i <= j]].items

BlockEndStep == pc = "block_end" /\ pc' # "raised"

\* the active_out the step records
Recorded == active_out'[current_block].items

\* the tree temps active when the block ends
LeftoverTemps == {active_intervals[i] : i \in 1..Len(active_intervals)} \ 
                     {v \in Intervals : IsVar(v)}

\* C28: the active_out recorded at the end of a block's scan holds variable
\* intervals only, one entry for each variable active at that point with reg
\* equal to the variable's live_in, no two entries naming the same register
\* or the same variable; every tree temp still active at the end of the block
\* has left the active set and its register is emptied.
ActiveOutOfVariables ==
    [][BlockEndStep =>
           /\ ~active_out'[current_block].isNone
           /\ \A i \in 1..Len(Recorded) :
                  /\ IsVar(Recorded[i].interval)
                  /\ Contains(active_intervals, Recorded[i].interval)
                  /\ Recorded[i].reg = live_in'[Recorded[i].interval]
           /\ \A v \in Intervals :
                  (IsVar(v) /\ Contains(active_intervals, v)) => v \in VarsIn(Recorded)
           /\ \A i, j \in 1..Len(Recorded) :
                  i # j => /\ Recorded[i].reg # Recorded[j].reg
                           /\ Recorded[i].interval # Recorded[j].interval
           /\ \A t \in LeftoverTemps :
                  /\ ~Contains(active_intervals', t)
                  /\ live_in'[t] = None
                  /\ \A r \in Regs : registers'[r] # t]_vars

\* the trees the variable's UsePos records name, in list order
UsedIn(v) == var_intervals[v].use_positions

\* the LdLocal trees of the variable, in execution order
Loads(v) == PositionsOf("LdLocal", v, 0)

\* C29: after interval discovery the UsePos appended for an LdLocal l tree
\* names the parent of that LdLocal, the tree that consumes the loaded
\* value, and the use positions of each variable are in ascending ir_idx
\* order.
UsePosAtConsumer ==
    \A v \in DOMAIN var_intervals :
        /\ Len(UsedIn(v)) = Len(Loads(v))
        /\ \A i \in 1..Len(UsedIn(v)) : UsedIn(v)[i] = ir.parent[Loads(v)[i]]
        /\ \A i, j \in 1..Len(UsedIn(v)) : i < j => UsedIn(v)[i] <= UsedIn(v)[j]

\* the next step processes a restore attached to the current tree and does
\* not raise
RestoreStep == pc = "restore" /\ pc' # "raised"

\* the RestoreRec the step processes, as the step leaves it
Processed == tree_restores'[current_tree][restore_i]

\* C30: every placeholder restore is processed when its tree is scanned, its
\* reg is then the register in which the interval was activated at that
\* tree, and once do_linear_scan has returned no RestoreRec attached to a
\* tree has reg = -1.
PlaceholdersProcessed ==
    [][/\ RestoreStep => /\ Processed.reg # UnsetReg
                          /\ Processed.reg \in Regs
                          /\ registers'[Processed.reg] = Processed.interval
       /\ pc' = "done" =>
              \A t \in DOMAIN tree_restores' :
                  \A i \in 1..Len(tree_restores'[t]) :
                      tree_restores'[t][i].reg # UnsetReg]_vars

(***************************************************************************)
(* The objects of ir.py.  heap.blocks, heap.statements and heap.trees hold *)
(* the BasicBlock, Statement and Tree objects in creation order; an object *)
(* is named by its place there and None is the null reference.  An operand *)
(* of a tree is a pair of the operand's class and its value.               *)
(***************************************************************************)
\* instruction indexes a function may use (0 .. MaxIns - 1)
MaxIns == 7
\* instructions of one statement at most
MaxWidth == 3

BlockEdge(target) == <<"BlockEdge", target>>
BlockOperand(block) == <<"BasicBlock", block>>
PlainOperand(x) == <<"int", x>>

\* the fields of the Tree dataclass that have no default (ir.py:30-34)
RequiredTreeFields == {"kind", "subtrees", "operands", "parent", "block"}

\* BasicBlockList.__init__ (ir.py:129-130)
BasicBlockList ==
    [blocks |-> <<[il_idx |-> 0, next_block |-> None, prev_block |-> None,
                   first_statemenent |-> None, last_statement |-> None,
                   predecessors |-> <<>>]>>,
     statements |-> <<>>,
     trees |-> <<>>]

\* BasicBlockList.first
first == 1

\* Tree(...) with the keyword arguments given: the dataclass __init__ raises
\* TypeError when a field without default is missing
Tree(H, given, kind, subtrees, operands, parent, block) ==
    IF ~(RequiredTreeFields \subseteq given) THEN [H |-> H, tree |-> None, err |-> "TypeError"]
    ELSE [H |-> [H EXCEPT !.trees = Append(@, [kind |-> kind, subtrees |-> subtrees,
                                               operands |-> operands, parent |-> parent,
                                               block |-> block, ir_idx |-> 0])],
          tree |-> Len(H.trees) + 1,
          err |-> ""]

\* BasicBlock.append_tree (ir.py:114-121)
append_tree(H, self, il_idx, tree) ==
    LET last == H.blocks[self].last_statement
        new  == Len(H.statements) + 1
        H1   == [H EXCEPT !.statements =
                     Append(@, [il_idx |-> il_idx, tree |-> tree, next_statement |-> None,
                                prev_statement |-> last])]
    IN  IF last = None
        THEN [H1 EXCEPT !.blocks[self].last_statement = new,
                        !.blocks[self].first_statemenent = new]
        ELSE [H1 EXCEPT !.statements[last].next_statement = new,
                        !.blocks[self].last_statement = new]

\* the walk over the blocks that also stops before a block with the
\* requested il_idx
RECURSIVE find_block_before_equal(_, _, _)
find_block_before_equal(H, block, il_idx) ==
    LET next == H.blocks[block].next_block
    IN  IF H.blocks[block].il_idx < il_idx
           /\ ~(next = None \/ H.blocks[next].il_idx >= il_idx)
        THEN find_block_before_equal(H, next, il_idx)
        ELSE block

\* ir.py:133-137: the last block whose il_idx does not exceed the request
RECURSIVE find_block(_, _, _)
find_block(H, block, il_idx) ==
    LET next == H.blocks[block].next_block
    IN  IF H.blocks[block].il_idx < il_idx
           /\ ~(next = None \/ H.blocks[next].il_idx > il_idx)
        THEN find_block(H, next, il_idx)
        ELSE block

\* ir.py:142-154: the walk over the block's statements.  past: every
\* statement starts before the request; otherwise statement is the first
\* one that does not
RECURSIVE find_statement(_, _, _)
find_statement(H, statement, il_idx) ==
    IF statement = None THEN [err |-> "AttributeError", past |-> FALSE, statement |-> None]
    ELSE IF H.statements[statement].il_idx < il_idx
    THEN IF H.statements[statement].next_statement = None
         THEN [err |-> "", past |-> TRUE, statement |-> statement]
         ELSE find_statement(H, H.statements[statement].next_statement, il_idx)
    ELSE [err |-> "", past |-> FALSE, statement |-> statement]

\* ir.py:148-151 and ir.py:162-165: the new block enters the list after block
link_new_block(H, block, il_idx) ==
    LET new  == Len(H.blocks) + 1
        next == H.blocks[block].next_block
        H1   == [H EXCEPT !.blocks =
                     Append(@, [il_idx |-> il_idx, next_block |-> next,
                                prev_block |-> H.blocks[block].prev_block,
                                first_statemenent |-> None, last_statement |-> None,
                                predecessors |-> <<>>])]
        H2   == [H1 EXCEPT !.blocks[block].next_block = new]
    IN  IF next # None THEN [H2 EXCEPT !.blocks[next].prev_block = new] ELSE H2

\* ir.py:167-185: the statements from statement on move to the new block and
\* block ends with a synthesized Jmp
split_block(H, block, new, statement) ==
    LET old_last == H.blocks[block].last_statement
        H1  == [H EXCEPT !.blocks[new].first_statemenent = statement,
                         !.blocks[new].last_statement = old_last]
        T   == Tree(H1, RequiredTreeFields, "Jmp", <<>>, <<BlockEdge(new)>>, None, block)
        jmp == Len(H1.statements) + 1
        prev == H1.statements[old_last].prev_statement
        H2  == [T.H EXCEPT !.statements =
                    Append(@, [il_idx |-> IF prev # None THEN H1.statements[prev].il_idx
                                          ELSE H1.blocks[block].il_idx,
                               tree |-> T.tree, next_statement |-> None,
                               prev_statement |-> prev])]
        H3  == IF prev # None THEN [H2 EXCEPT !.statements[prev].next_statement = jmp] ELSE H2
        H4  == IF H3.blocks[block].last_statement = H3.blocks[block].first_statemenent
               THEN [H3 EXCEPT !.blocks[block].first_statemenent = jmp] ELSE H3
        H5  == [H4 EXCEPT !.blocks[block].last_statement = jmp]
    IN  [H5 EXCEPT !.statements[H5.blocks[new].first_statemenent].prev_statement = None]

\* BasicBlockList.get_or_insert_block_at (ir.py:132-187).  block is the
\* returned block; exit(1) at ir.py:159 is the error SystemExit
get_or_insert_block_at(H, il_idx) ==
    LET block == find_block(H, first, il_idx)
        found == find_statement(H, H.blocks[block].first_statemenent, il_idx)
        H1    == link_new_block(H, block, il_idx)
        new   == Len(H.blocks) + 1
    IN  IF H.blocks[block].il_idx = il_idx THEN [H |-> H, block |-> block, err |-> ""]
        ELSE IF found.err # "" THEN [H |-> H, block |-> None, err |-> found.err]
        ELSE IF found.past THEN [H |-> H1, block |-> new, err |-> ""]
        ELSE IF H.statements[found.statement].il_idx > il_idx
        THEN [H |-> H, block |-> None, err |-> "SystemExit"]
        ELSE [H |-> split_block(H1, block, new, found.statement), block |-> new, err |-> ""]

(***************************************************************************)
(* SpecBlocks: the calls import_to_ir makes on the block list              *)
(* (stack_instruction.py:51-117), one action per call, made by a caller    *)
(* whose Trees carry every field.  A statement spans the instructions      *)
(* i_stmt_start .. i_ins; the value trees below its root are one Const.    *)
(***************************************************************************)
\* do_linear_scan is not part of the run
NoLsra ==
    /\ ir = <<>>
    /\ num_regs = 0
    /\ allow_operand_reuse = TRUE
    /\ saved_reuse = TRUE
    /\ var_intervals = <<>>
    /\ registers = <<>>
    /\ live_in = <<>>
    /\ active_intervals = <<>>
    /\ current_block = None
    /\ current_tree = None
    /\ tree_reg = <<>>
    /\ tree_spills = <<>>
    /\ tree_restores = <<>>
    /\ tree_operands = <<>>
    /\ active_in = <<>>
    /\ active_out = <<>>
    /\ edge_spills = <<>>
    /\ edge_moves = <<>>
    /\ edge_restores = <<>>
    /\ block_i = 1
    /\ tree_i = 1
    /\ restore_i = 1

\* the record of a get_or_insert_block_at call on the block list H
Called(H, il_idx, r) ==
    last_call' = [op |-> "get_or_insert_block_at", il_idx |-> il_idx, before |-> H,
                  block |-> r.block, err |-> r.err]

\* stack_instruction.py:62-63: n Push instructions whose trees the statement
\* that follows does not take stay on the tree stack
RECURSIVE push_const(_, _, _, _)
push_const(H, stack, n, block) ==
    IF n = 0 THEN [H |-> H, stack |-> stack]
    ELSE LET T == Tree(H, RequiredTreeFields, "Const", <<>>, <<PlainOperand(1)>>, None, block)
         IN  push_const(T.H, Append(stack, T.tree), n - 1, block)

\* the instructions a statement of the kind is made of at least
MinWidth(kind) == IF kind = "Jmp" THEN 1 ELSE 2

\* stack_instruction.py:87, 96, 97: a Jmp or Branch resolves a target; the
\* instructions of the statement beyond MinWidth are Push instructions
ResolveTarget ==
    /\ pc \in {"statement", "resolve"}
    /\ \E target \in 0..MaxIns, kind \in {"Jmp", "Branch"}, width \in 1..MaxWidth :
           LET starting == pc = "statement"
               k == IF starting THEN kind ELSE pending.kind
               P == push_const(heap, tree_stack,
                               IF starting THEN width - MinWidth(kind) ELSE 0, import_block)
               r == get_or_insert_block_at(P.H, target)
           IN  /\ starting => width >= MinWidth(kind)
               /\ starting => i_stmt_start + width - 1 < MaxIns
               /\ ~starting => (kind = pending.kind /\ width = 1)
               /\ i_ins' = IF starting THEN i_stmt_start + width - 1 ELSE i_ins
               /\ heap' = r.H
               /\ tree_stack' = P.stack
               /\ Called(P.H, target, r)
               /\ pending' = [kind |-> k,
                              operands |-> IF starting THEN <<BlockOperand(r.block)>>
                                           ELSE Append(pending.operands, BlockOperand(r.block))]
               /\ err' = r.err
               /\ pc' = IF r.err # "" THEN "raised"
                        ELSE IF k = "Branch" /\ starting THEN "resolve"
                        ELSE "flush"
    /\ UNCHANGED <<fn, import_block, i_stmt_start>>
    /\ UNCHANGED lsraVars

\* the root tree of a statement of the kind, over one Const where the kind
\* takes a value
statement_tree(H, kind, operands, block) ==
    LET leaf == Tree(H, RequiredTreeFields, "Const", <<>>, <<PlainOperand(1)>>, None, block)
        root == IF kind = "Jmp"
                THEN Tree(H, RequiredTreeFields, kind, <<>>, operands, None, block)
                ELSE Tree(leaf.H, RequiredTreeFields, kind, <<leaf.tree>>, operands, None, block)
    IN  IF kind = "Jmp" THEN root
        ELSE [root EXCEPT !.H.trees[leaf.tree].parent = root.tree]

\* the kinds whose flush is followed by the test for leftover operands
\* (stack_instruction.py:60, 69, 91, 101)
LeftoverChecked == {"StLocal", "Discard", "Jmp", "Branch"}

\* stack_instruction.py:58-60, 67-69, 89-91, 99-101, 107-108: the statement
\* goes to the current block; last: the instruction was the function's last
AppendTree ==
    /\ pc \in {"statement", "flush"}
    /\ \E kind \in {"StLocal", "Discard", "Ret", "Jmp", "Branch"}, width \in 2..MaxWidth,
          last \in BOOLEAN :
           LET flushing == pc = "flush"
               at == IF flushing THEN i_ins ELSE i_stmt_start + width - 1
               P  == push_const(heap, tree_stack, IF flushing THEN 0 ELSE width - 2,
                                import_block)
               T  == statement_tree(P.H, kind,
                                    IF flushing THEN pending.operands
                                    ELSE IF kind = "StLocal" THEN <<PlainOperand(0)>> ELSE <<>>,
                                    import_block)
               leftover == kind \in LeftoverChecked /\ P.stack # <<>>
           IN  /\ flushing => (kind = pending.kind /\ width = 2)
               /\ ~flushing => (kind \in {"StLocal", "Discard", "Ret"} /\ at < MaxIns)
               /\ kind \in {"StLocal", "Discard"} => ~last
               /\ at + 1 >= MaxIns => (last \/ kind \in {"StLocal", "Discard"})
               /\ i_ins' = at
               /\ heap' = append_tree(T.H, import_block, i_stmt_start, T.tree)
               /\ tree_stack' = P.stack
               /\ i_stmt_start' = at + 1
               /\ err' = IF leftover THEN "Leftover stack operands" ELSE err
               /\ pc' = IF leftover THEN "raised"
                        ELSE IF kind \in {"StLocal", "Discard"} THEN "statement"
                        ELSE IF last THEN "built" ELSE "advance"
    /\ pending' = NoPending
    /\ last_call' = [NoCall EXCEPT !.op = "append_tree", !.before = heap]
    /\ UNCHANGED <<fn, import_block>>
    /\ UNCHANGED lsraVars

\* stack_instruction.py:93, 103, 110: the block of the next instruction
\* becomes the current block
AdvanceBlock ==
    /\ pc = "advance"
    /\ LET r == get_or_insert_block_at(heap, i_ins + 1)
       IN  /\ heap' = r.H
           /\ Called(heap, i_ins + 1, r)
           /\ import_block' = IF r.err = "" THEN r.block ELSE import_block
           /\ err' = r.err
           /\ pc' = IF r.err # "" THEN "raised" ELSE "statement"
    /\ UNCHANGED <<fn, tree_stack, i_ins, i_stmt_start, pending>>
    /\ UNCHANGED lsraVars

\* stack_instruction.py:30-32, 48-49
InitBlocks ==
    /\ NoLsra
    /\ fn = [local_vars |-> MaxLocals, instructions |-> <<>>]
    /\ heap = BasicBlockList
    /\ import_block = first
    /\ tree_stack = <<>>
    /\ i_ins = 0
    /\ i_stmt_start = 0
    /\ pending = NoPending
    /\ last_call = NoCall
    /\ pc = "statement"
    /\ err = ""

(***************************************************************************)
(* SpecImport: import_to_ir (stack_instruction.py:29-117), one action per  *)
(* instruction of the function.                                            *)
(***************************************************************************)
\* instructions of a function at most
MaxProgram == 2

BinOpKinds == {"Add", "Sub", "Mul", "Div", "Eq"}
TerminatorInstructions == {"Jmp", "Branch", "Ret"}

StackInstruction(kind, operands) == [kind |-> kind, operands |-> operands]

\* the instructions a function of n instructions is made of: locals are
\* 0 .. MaxLocals - 1, jump targets 0 .. n
Instructions(n) ==
    {StackInstruction(k, <<v>>) : k \in {"LdLocal", "StLocal"}, v \in 0..(MaxLocals - 1)}
    \cup {StackInstruction("Push", <<1>>)}
    \cup {StackInstruction(k, <<>>) : k \in {"Pop", "Ret"} \cup BinOpKinds}
    \cup {StackInstruction("Jmp", <<t>>) : t \in 0..n}
    \cup {StackInstruction("Branch", <<t1, t2>>) : t1 \in 0..n, t2 \in 0..n}

StackFunctions ==
    UNION {{[local_vars |-> MaxLocals, instructions |-> ins] :
               ins \in [1..n -> Instructions(n)]} : n \in 0..MaxProgram}

\* the keyword arguments fold gives Tree (stack_instruction.py:42)
fold_tree_fields == {"kind", "subtrees", "operands", "parent"}

\* the locals of import_to_ir that an instruction reads and writes; left: the
\* loop was left by break
Importing == [heap |-> heap, tree_stack |-> tree_stack, import_block |-> import_block,
              i_stmt_start |-> i_stmt_start, left |-> FALSE, err |-> ""]

\* fold without the test of the stack depth
fold_unchecked(S, kind, n, operands) ==
    LET l    == Len(S.tree_stack)
        rest == SubSeq(S.tree_stack, 1, l - n)
        T    == Tree(S.heap, fold_tree_fields, kind, <<>>, operands, None, None)
    IN  IF T.err # "" THEN Raise([S EXCEPT !.tree_stack = rest], T.err)
        ELSE [S EXCEPT !.heap = T.H, !.tree_stack = Append(rest, T.tree)]

\* fold (stack_instruction.py:34-46)
fold(S, kind, n, operands) ==
    LET l    == Len(S.tree_stack)
        res  == SubSeq(S.tree_stack, l - n + 1, l)
        rest == SubSeq(S.tree_stack, 1, l - n)
        T    == Tree(S.heap, fold_tree_fields, kind, res, operands, None, None)
        H    == [T.H EXCEPT !.trees = [t \in 1..Len(@) |->
                                          IF Contains(res, t) THEN [@[t] EXCEPT !.parent = T.tree]
                                          ELSE @[t]]]
    IN  IF n > l THEN Raise(S, "Not enough stack operands")
        ELSE IF T.err # "" THEN Raise([S EXCEPT !.tree_stack = rest], T.err)
        ELSE [S EXCEPT !.heap = H, !.tree_stack = Append(rest, T.tree)]

\* the statement leaves the tree stack for the current block and the next
\* statement starts after instruction i (stack_instruction.py:58-60); check:
\* whether leftover operands are an error
flush(S, i, check) ==
    LET l  == Len(S.tree_stack)
        S1 == [S EXCEPT !.heap = append_tree(S.heap, S.import_block, S.i_stmt_start,
                                             S.tree_stack[l]),
                        !.tree_stack = SubSeq(S.tree_stack, 1, l - 1),
                        !.i_stmt_start = i + 1]
    IN  IF S.err # "" THEN S
        ELSE IF check /\ S1.tree_stack # <<>> THEN Raise(S1, "Leftover stack operands")
        ELSE S1

\* stack_instruction.py:92-93: after a terminator the loop ends, or the block
\* of the next instruction becomes the current block
next_block(S, i, last) ==
    LET r == get_or_insert_block_at(S.heap, i + 1)
    IN  IF S.err # "" THEN S
        ELSE IF i = last THEN [S EXCEPT !.left = TRUE]
        ELSE IF r.err # "" THEN Raise(S, r.err)
        ELSE [S EXCEPT !.heap = r.H, !.import_block = r.block]

\* stack_instruction.py:87 and 96-97: the blocks of the targets, in order
RECURSIVE resolve_targets(_, _, _, _)
resolve_targets(S, targets, k, found) ==
    IF k > Len(targets) THEN [S |-> S, blocks |-> found]
    ELSE LET r == get_or_insert_block_at(S.heap, targets[k])
         IN  IF r.err # "" THEN [S |-> Raise(S, r.err), blocks |-> found]
             ELSE resolve_targets([S EXCEPT !.heap = r.H], targets, k + 1,
                                  Append(found, BlockOperand(r.block)))

\* the value of a one-element set: each step of a chain is computed once
The(S) == CHOOSE x \in S : TRUE

\* a terminator: fold, flush, then break or the next block
\* (stack_instruction.py:88-93, 98-103, 106-110)
terminator(S, kind, n, operands, check, i, last) ==
    The({next_block(F, i, last) :
            F \in {flush(D, i, check) : D \in {fold(S, kind, n, operands)}}})

\* one turn of the loop (stack_instruction.py:51-113) for instruction i
import_instruction(S, ins, i, last) ==
    LET plain == [k \in 1..Len(ins.operands) |-> PlainOperand(ins.operands[k])]
        jump(kind, n) ==
            The({IF R.S.err # "" THEN R.S
                 ELSE terminator(R.S, kind, n, R.blocks, TRUE, i, last) :
                     R \in {resolve_targets(S, ins.operands, 1, <<>>)}})
        turn ==
            CASE ins.kind = "LdLocal" -> fold(S, "LdLocal", 0, plain)
              [] ins.kind = "StLocal" ->
                     The({flush(D, i, TRUE) : D \in {fold(S, "StLocal", 1, plain)}})
              [] ins.kind = "Push" -> fold(S, "Const", 0, plain)
              [] ins.kind = "Pop" ->
                     The({flush(D, i, TRUE) : D \in {fold(S, "Discard", 1, <<>>)}})
              [] ins.kind \in BinOpKinds ->
                     fold(S, "BinOp", 2, <<<<"Operator", ins.kind>>>>)
              [] ins.kind = "Jmp" -> jump("Jmp", 0)
              [] ins.kind = "Branch" -> jump("Branch", 1)
              [] ins.kind = "Ret" -> terminator(S, "Ret", 1, <<>>, FALSE, i, last)
    IN  The({IF done.err = "" /\ ~done.left /\ i = last
             THEN Raise(done, "Illegal terminator")
             ELSE done : done \in {turn}})

ImportInstruction ==
    /\ pc = "import"
    /\ \E S \in {import_instruction(Importing, fn.instructions[i_ins + 1], i_ins,
                                    Len(fn.instructions) - 1)} :
           /\ heap' = S.heap
           /\ tree_stack' = S.tree_stack
           /\ import_block' = S.import_block
           /\ i_stmt_start' = S.i_stmt_start
           /\ err' = S.err
           /\ i_ins' = IF S.err = "" /\ ~S.left THEN i_ins + 1 ELSE i_ins
           /\ pc' = IF S.err # "" THEN "raised" ELSE IF S.left THEN "built" ELSE "import"
    /\ UNCHANGED <<fn, pending, last_call>>
    /\ UNCHANGED lsraVars

\* Tree.tree_execution_order (ir.py:43-48)
RECURSIVE tree_execution_order(_, _)
tree_execution_order(H, tree) ==
    LET RECURSIVE Below(_)
        Below(k) == IF k > Len(H.trees[tree].subtrees) THEN <<>>
                    ELSE tree_execution_order(H, H.trees[tree].subtrees[k]) \o Below(k + 1)
    IN  Below(1) \o <<tree>>

\* the statement loop of Ir.tree_execution_order (ir.py:221-225)
RECURSIVE statement_execution_order(_, _)
statement_execution_order(H, statement) ==
    IF statement = None THEN <<>>
    ELSE tree_execution_order(H, H.statements[statement].tree)
         \o statement_execution_order(H, H.statements[statement].next_statement)

\* Ir.tree_execution_order (ir.py:218-226) from a block on
RECURSIVE ir_tree_execution_order(_, _)
ir_tree_execution_order(H, block) ==
    IF block = None THEN <<>>
    ELSE statement_execution_order(H, H.blocks[block].first_statemenent)
         \o ir_tree_execution_order(H, H.blocks[block].next_block)

\* Ir.reindex (ir.py:203-210): every tree takes the index of its last visit
reindex(H) ==
    LET order == ir_tree_execution_order(H, first)
        at(t) == CHOOSE i \in 1..Len(order) :
                     order[i] = t /\ \A j \in (i + 1)..Len(order) : order[j] # t
    IN  [H |-> [H EXCEPT !.trees = [t \in 1..Len(@) |->
                                       IF Contains(order, t)
                                       THEN [@[t] EXCEPT !.ir_idx = at(t) - 1]
                                       ELSE @[t]]],
         ir_idx_count |-> Len(order)]

\* stack_instruction.py:115-117: the Ir is built, reindexed and returned
ImportReturn ==
    /\ pc = "built"
    /\ LET r == reindex(heap)
       IN  /\ heap' = r.H
           /\ ir' = [blocks |-> first, local_vars |-> fn.local_vars,
                     ir_idx_count |-> r.ir_idx_count]
    /\ pc' = "returned"
    /\ UNCHANGED <<num_regs, allow_operand_reuse, saved_reuse, var_intervals, registers,
                   live_in, active_intervals, current_block, current_tree, tree_reg,
                   tree_spills, tree_restores, tree_operands, active_in, active_out,
                   edge_spills, edge_moves, edge_restores, block_i, tree_i, restore_i>>
    /\ UNCHANGED <<fn, import_block, tree_stack, i_ins, i_stmt_start, pending, last_call, err>>

\* BasicBlock.outgoing_edges (ir.py:100-105): the operands of the last
\* statement's tree up to the first that is no BlockEdge
outgoing_edges(H, block) ==
    LET last == H.blocks[block].last_statement
        ops  == H.trees[H.statements[last].tree].operands
        bad  == {k \in 1..Len(ops) : ops[k][1] # "BlockEdge"}
        stop == CHOOSE k \in bad : \A j \in bad : k <= j
    IN  IF last = None THEN [err |-> "AttributeError", edges |-> <<>>]
        ELSE IF bad = {} THEN [err |-> "", edges |-> ops]
        ELSE [err |-> "AssertionError", edges |-> SubSeq(ops, 1, stop - 1)]

\* ir.py:199-200: block joins the predecessors of the target of each edge
RECURSIVE append_predecessor(_, _, _, _)
append_predecessor(H, block, edges, k) ==
    IF k > Len(edges) THEN H
    ELSE append_predecessor([H EXCEPT !.blocks[edges[k][2]].predecessors = Append(@, block)],
                            block, edges, k + 1)

\* Ir.recompute_predecessors (ir.py:196-201) on the block list, from block on
RECURSIVE Ir_recompute_predecessors(_, _)
Ir_recompute_predecessors(H, block) ==
    IF block = None THEN [H |-> H, err |-> ""]
    ELSE The({IF e.err # "" THEN [H |-> append_predecessor(H, block, e.edges, 1),
                                  err |-> e.err]
              ELSE Ir_recompute_predecessors(append_predecessor(H, block, e.edges, 1),
                                             H.blocks[block].next_block) :
                  e \in {outgoing_edges(H, block)}})

\* the caller of import_to_ir fills in the predecessors of the returned Ir
RecomputePredecessors ==
    /\ pc = "returned"
    /\ \E r \in {Ir_recompute_predecessors(heap, ir.blocks)} :
           /\ heap' = r.H
           /\ err' = r.err
           /\ last_call' = [NoCall EXCEPT !.op = "recompute_predecessors",
                                          !.before = heap, !.err = r.err]
           /\ pc' = IF r.err # "" THEN "raised" ELSE "predecessors"
    /\ UNCHANGED <<fn, import_block, tree_stack, i_ins, i_stmt_start, pending>>
    /\ UNCHANGED lsraVars

\* SpecBlocks: the calls on the block list, then the Ir is built and
\* reindexed, and its predecessors are recomputed
NextBlocks ==
    \/ ResolveTarget
    \/ AppendTree
    \/ AdvanceBlock
    \/ ImportReturn
    \/ RecomputePredecessors

SpecBlocks == InitBlocks /\ [][NextBlocks]_vars

\* stack_instruction.py:29-32 and 48-49
InitImport ==
    /\ NoLsra
    /\ fn \in StackFunctions
    /\ heap = BasicBlockList
    /\ import_block = first
    /\ tree_stack = <<>>
    /\ i_ins = 0
    /\ i_stmt_start = 0
    /\ pending = NoPending
    /\ last_call = NoCall
    /\ pc = IF fn.instructions = <<>> THEN "built" ELSE "import"
    /\ err = ""

NextImport ==
    \/ ImportInstruction
    \/ ImportReturn

SpecImport == InitImport /\ [][NextImport]_vars

(***************************************************************************)
(* Properties of the block list.                                           *)
(***************************************************************************)
\* the blocks reached from the first block through next_block
RECURSIVE BlocksFrom(_, _)
BlocksFrom(H, block) ==
    IF block = None THEN <<>> ELSE <<block>> \o BlocksFrom(H, H.blocks[block].next_block)

\* the statements reached from a statement through next_statement
RECURSIVE StatementsFrom(_, _)
StatementsFrom(H, statement) ==
    IF statement = None THEN <<>>
    ELSE <<statement>> \o StatementsFrom(H, H.statements[statement].next_statement)

StatementsOf(H, block) == StatementsFrom(H, H.blocks[block].first_statemenent)

\* the last call was get_or_insert_block_at and it returned a block
Returned == last_call.op = "get_or_insert_block_at" /\ last_call.err = ""

\* the block get_or_insert_block_at started its statement walk from
PrecedingBlock == find_block(last_call.before, first, last_call.il_idx)

\* where in the preceding block's statements the first statement with the
\* requested il_idx stands, 0 if there is none
SplitAt ==
    LET chain == StatementsOf(last_call.before, PrecedingBlock)
        hits  == {i \in 1..Len(chain) :
                     last_call.before.statements[chain[i]].il_idx = last_call.il_idx}
    IN  IF hits = {} THEN 0 ELSE CHOOSE i \in hits : \A j \in hits : i <= j

\* the last call found no block with the requested il_idx but a statement of
\* the preceding block that has it
Split ==
    /\ Returned
    /\ last_call.before.blocks[PrecedingBlock].il_idx # last_call.il_idx
    /\ SplitAt > 0

\* C8: when get_or_insert_block_at finds no block with the il_idx but a
\* statement S of the preceding block B with it, then afterwards the new
\* block B' directly follows B, B' holds S and the statements that followed
\* S in their order, B holds the statements that preceded S and then one
\* synthesized Jmp whose only operand is a BlockEdge to B', and no statement
\* is lost or reachable from both blocks.
BlockSplit ==
    Split =>
        LET B      == PrecedingBlock
            Bnew   == last_call.block
            chain  == StatementsOf(last_call.before, B)
            kept   == StatementsOf(heap, B)
            moved  == StatementsOf(heap, Bnew)
            jmp    == kept[Len(kept)]
        IN  /\ Bnew > Len(last_call.before.blocks)
            /\ heap.blocks[B].next_block = Bnew
            /\ moved = SubSeq(chain, SplitAt, Len(chain))
            /\ Len(kept) = SplitAt
            /\ SubSeq(kept, 1, SplitAt - 1) = SubSeq(chain, 1, SplitAt - 1)
            /\ jmp > Len(last_call.before.statements)
            /\ heap.trees[heap.statements[jmp].tree].kind = "Jmp"
            /\ heap.trees[heap.statements[jmp].tree].operands = <<BlockEdge(Bnew)>>
            /\ heap.blocks[B].last_statement = jmp
            /\ heap.blocks[Bnew].last_statement = chain[Len(chain)]

\* C9: after calls of get_or_insert_block_at that return normally the blocks
\* reached from the first block have strictly ascending il_idx starting at
\* 0, no two blocks have the same il_idx, and a call whose il_idx already has
\* a block returns that block and adds none.
BlocksSorted ==
    err = "" =>
        LET chain == BlocksFrom(heap, first)
        IN  /\ heap.blocks[chain[1]].il_idx = 0
            /\ \A i \in 1..(Len(chain) - 1) :
                   heap.blocks[chain[i]].il_idx < heap.blocks[chain[i + 1]].il_idx
            /\ \A b, c \in 1..Len(heap.blocks) :
                   heap.blocks[b].il_idx = heap.blocks[c].il_idx => b = c
            /\ (Returned /\ \E b \in 1..Len(last_call.before.blocks) :
                                last_call.before.blocks[b].il_idx = last_call.il_idx)
                   => /\ last_call.block \in 1..Len(last_call.before.blocks)
                      /\ last_call.before.blocks[last_call.block].il_idx = last_call.il_idx
                      /\ heap = last_call.before

\* a lookup of an existing block in a list that grew by an insert between two
\* blocks and by a split
BlocksSortedWitness ==
    /\ Returned
    /\ heap = last_call.before
    /\ last_call.il_idx > 0
    /\ Len(heap.blocks) >= 4
    /\ \E t \in 1..Len(heap.trees) : heap.trees[t].operands # <<>>
                                     /\ heap.trees[t].operands[1][1] = "BlockEdge"
    /\ \E b \in 2..Len(heap.blocks) :
           heap.blocks[b].next_block # None /\ heap.blocks[b].next_block > b + 1

\* C10: the block links form a doubly linked list: the prev_block of every
\* block's successor is that block, and every block but the first has as
\* prev_block the block whose next_block it is.
BlockLinks ==
    err = "" =>
        \A b \in 1..Len(heap.blocks) :
            /\ heap.blocks[b].next_block # None
                   => heap.blocks[heap.blocks[b].next_block].prev_block = b
            /\ b # first
                   => /\ heap.blocks[b].prev_block # None
                      /\ heap.blocks[heap.blocks[b].prev_block].next_block = b

\* the last call was get_or_insert_block_at, no block had the requested
\* il_idx and every statement of the preceding block starts before it
PastLastStatement ==
    /\ last_call.op = "get_or_insert_block_at"
    /\ last_call.before.blocks[PrecedingBlock].il_idx # last_call.il_idx
    /\ \A i \in 1..Len(StatementsOf(last_call.before, PrecedingBlock)) :
           last_call.before.statements[StatementsOf(last_call.before, PrecedingBlock)[i]].il_idx
               < last_call.il_idx

\* C11: when get_or_insert_block_at finds no block with the il_idx and the
\* request lies past the last statement of the preceding block B, with or
\* without statements in B, it returns a new block with that il_idx and no
\* statements, linked directly after B, and B's statements are unchanged.
InsertPast ==
    PastLastStatement =>
        /\ last_call.err = ""
        /\ LET B == PrecedingBlock
               N == last_call.block
           IN  /\ N = Len(last_call.before.blocks) + 1
               /\ Len(heap.blocks) = N
               /\ heap.blocks[N].il_idx = last_call.il_idx
               /\ heap.blocks[N].first_statemenent = None
               /\ heap.blocks[N].last_statement = None
               /\ heap.blocks[B].next_block = N
               /\ heap.blocks[N].next_block = last_call.before.blocks[B].next_block
               /\ StatementsOf(heap, B) = StatementsOf(last_call.before, B)
               /\ heap.statements = last_call.before.statements

\* the il_idx at which the statements appended by the importer start; the
\* Jmp a split synthesizes is told apart by its BlockEdge operand
StatementStarts(H) ==
    {H.statements[s].il_idx : s \in {x \in 1..Len(H.statements) :
        LET ops == H.trees[H.statements[x].tree].operands
        IN  ops = <<>> \/ ops[1][1] # "BlockEdge"}}

\* the last call asked for an index among the instructions already imported
\* that is not the first instruction of a statement
MidStatement ==
    /\ last_call.op = "get_or_insert_block_at"
    /\ last_call.il_idx < i_stmt_start
    /\ last_call.il_idx \notin StatementStarts(last_call.before)

\* C12: a Jmp or Branch whose target lies strictly inside the instruction
\* span of a statement, between two statements of a block or inside the span
\* of a block's last statement, makes get_or_insert_block_at fail and no
\* block is created for the target.
MidStatementFails ==
    MidStatement => (last_call.err # "" /\ heap = last_call.before)

\* the Ir was built and reindexed
Reindexed == pc = "returned" /\ err = ""

\* C13: after reindex the ir_idx of the trees reached through the block and
\* statement lists are exactly 0 .. ir_idx_count - 1 without duplicates, in
\* block, statement and post order, every tree's ir_idx exceeds that of each
\* of its subtrees, and reindex run again changes nothing.
ReindexBijective ==
    Reindexed =>
        LET order == ir_tree_execution_order(heap, first)
            reached == {order[i] : i \in 1..Len(order)}
        IN  /\ {heap.trees[t].ir_idx : t \in reached} = 0..(ir.ir_idx_count - 1)
            /\ \A t, u \in reached : heap.trees[t].ir_idx = heap.trees[u].ir_idx => t = u
            /\ \A i \in 1..Len(order) : heap.trees[order[i]].ir_idx = i - 1
            /\ \A t \in reached : \A k \in 1..Len(heap.trees[t].subtrees) :
                   heap.trees[heap.trees[t].subtrees[k]].ir_idx < heap.trees[t].ir_idx
            /\ reindex(heap) = [H |-> heap, ir_idx_count |-> ir.ir_idx_count]

\* recompute_predecessors has been called on the Ir import_to_ir's calls built
Recomputed == last_call.op = "recompute_predecessors"

\* the BlockEdge operands of the tree of the block's last statement
TerminatorEdges(H, block) ==
    LET last == H.blocks[block].last_statement
        ops  == IF last = None THEN <<>> ELSE H.trees[H.statements[last].tree].operands
    IN  {ops[k][2] : k \in {j \in 1..Len(ops) : ops[j][1] = "BlockEdge"}}

\* C14: after import_to_ir and recompute_predecessors a block B is among the
\* predecessors of a block T exactly when an edge of B's terminator targets T.
PredecessorSymmetry ==
    Recomputed =>
        /\ err = ""
        /\ \A B, T \in 1..Len(heap.blocks) :
               Contains(heap.blocks[T].predecessors, B) <=> T \in TerminatorEdges(heap, B)

\* a statement has just been moved into the current block
Flushed == last_call.op = "append_tree" /\ pc \in {"statement", "advance", "built", "raised"}

\* the kind of the tree of the statement appended last
FlushedKind == heap.trees[heap.statements[Len(heap.statements)].tree].kind

RECURSIVE DepthBefore(_, _)
DepthBefore(ins, i) ==
    IF i = 1 THEN 0
    ELSE LET d == DepthBefore(ins, i - 1)
             k == ins[i - 1].kind
         IN  IF d < 0 THEN -1
             ELSE IF k \in {"LdLocal", "Push"} THEN d + 1
             ELSE IF k \in BinOpKinds THEN (IF d >= 2 THEN d - 1 ELSE -1)
             ELSE IF k = "Jmp" THEN (IF d = 0 THEN 0 ELSE -1)
             ELSE (IF d = 1 THEN 0 ELSE -1)

\* a well-formed stack program: every instruction finds its operands, a
\* statement ends with an empty stack, the last instruction is a terminator
\* and every jump target is the first instruction of a statement
WellFormed(f) ==
    LET ins == f.instructions
    IN  /\ ins # <<>>
        /\ DepthBefore(ins, Len(ins) + 1) = 0
        /\ ins[Len(ins)].kind \in TerminatorInstructions
        /\ \A i \in 1..Len(ins) :
               ins[i].kind \in {"Jmp", "Branch"} =>
                   \A k \in 1..Len(ins[i].operands) :
                       /\ ins[i].operands[k] < Len(ins)
                       /\ DepthBefore(ins, ins[i].operands[k] + 1) = 0

\* import_to_ir has returned or raised
Imported == pc \in {"returned", "raised"}

TerminatorTrees == {"Ret", "Jmp", "Branch"}

\* C6: after import_to_ir of a well-formed stack program every block of the
\* block list has a statement, the tree of its last statement is a Ret, Jmp
\* or Branch, and no earlier statement of the block is one.
BlocksTerminated ==
    (Imported /\ WellFormed(fn)) =>
        /\ pc = "returned"
        /\ LET chain == BlocksFrom(heap, first)
           IN  \A b \in 1..Len(chain) :
                   LET stmts == StatementsOf(heap, chain[b])
                       kind(i) == heap.trees[heap.statements[stmts[i]].tree].kind
                   IN  /\ stmts # <<>>
                       /\ kind(Len(stmts)) \in TerminatorTrees
                       /\ \A i \in 1..(Len(stmts) - 1) : kind(i) \notin TerminatorTrees

\* the block of the list that has the il_idx, None if there is none
BlockAt(H, il_idx) ==
    LET hits == {b \in 1..Len(H.blocks) : H.blocks[b].il_idx = il_idx}
    IN  IF hits = {} THEN None ELSE CHOOSE b \in hits : TRUE

\* C7: after import_to_ir of a well-formed program that jumps there is, for
\* every Jmp and Branch instruction, a tree of that kind whose operands are
\* BlockEdges to the blocks with the il_idx of the instruction's targets, and
\* every operand of every Jmp and Branch tree is a BlockEdge.
JumpOperandsAreBlockEdges ==
    (Imported /\ WellFormed(fn)
        /\ \E i \in 1..Len(fn.instructions) : fn.instructions[i].kind \in {"Jmp", "Branch"}) =>
        /\ pc = "returned"
        /\ \A t \in 1..Len(heap.trees) :
               heap.trees[t].kind \in {"Jmp", "Branch"} =>
                   /\ Len(heap.trees[t].operands) =
                          (IF heap.trees[t].kind = "Jmp" THEN 1 ELSE 2)
                   /\ \A k \in 1..Len(heap.trees[t].operands) :
                          heap.trees[t].operands[k][1] = "BlockEdge"
        /\ \A i \in 1..Len(fn.instructions) :
               fn.instructions[i].kind \in {"Jmp", "Branch"} =>
                   \E t \in 1..Len(heap.trees) :
                       /\ heap.trees[t].kind = fn.instructions[i].kind
                       /\ heap.trees[t].operands =
                              [k \in 1..Len(fn.instructions[i].operands) |->
                                  BlockEdge(BlockAt(heap, fn.instructions[i].operands[k]))]

\* the operand trees the instruction takes from the tree stack
Needs(ins) ==
    IF ins.kind \in BinOpKinds THEN 2
    ELSE IF ins.kind \in {"StLocal", "Pop", "Ret", "Branch"} THEN 1
    ELSE 0

\* C15: an instruction that takes more operand trees than the tree stack
\* holds (a BinOp with fewer than two, StLocal, Pop, Ret or Branch with
\* none) makes import_to_ir raise "Not enough stack operands", or the error
\* of a Branch target that failed to resolve, and no Ir is returned.
StackUnderflowIsFatal ==
    [][(pc = "import" /\ Needs(fn.instructions[i_ins + 1]) > Len(tree_stack)) =>
           /\ pc' = "raised"
           /\ ir' = ir
           /\ \/ err' = "Not enough stack operands"
              \/ /\ fn.instructions[i_ins + 1].kind = "Branch"
                 /\ err' \in {"AttributeError", "SystemExit"}]_vars

\* a BinOp instruction found too few operands
StackUnderflowWitness ==
    /\ pc = "raised"
    /\ err = "Not enough stack operands"
    /\ fn.instructions[i_ins + 1].kind \in BinOpKinds
    /\ Len(tree_stack) < 2

\* the function's last instruction is a Ret, Jmp or Branch
EndsWithTerminator(f) ==
    /\ f.instructions # <<>>
    /\ f.instructions[Len(f.instructions)].kind \in TerminatorInstructions

\* C17: for every instruction sequence that does not end with a terminator
\* instruction, the empty one included, import_to_ir raises an error, so an
\* Ir is returned only when the last instruction is a terminator.
TerminatorRequired ==
    (Imported /\ ~EndsWithTerminator(fn)) => (pc = "raised" /\ err # "")

\* the trees of the statements of a block, in execution order
TreesOfBlock(H, block) == statement_execution_order(H, H.blocks[block].first_statemenent)

\* C31: every tree's owning-block back-reference is the block whose statement
\* list holds the tree: a tree references the block it was appended to, and
\* the trees of the statements a split moved into a new block reference the
\* new block.
TreesReferenceTheirBlock ==
    LET chain == BlocksFrom(heap, first)
    IN  \A b \in 1..Len(chain) :
            LET trees == TreesOfBlock(heap, chain[b])
            IN  \A i \in 1..Len(trees) : heap.trees[trees[i]].block = chain[b]

====
